---- MODULE Spec2Model ----
(***************************************************************************)
(* Model of the subprocess execution engine of claude-code-api-server:     *)
(* the buffered executor (claude-executor.js, _spawnClaudeProcess) and the *)
(* streaming executor (claude-executor-streaming.js, executeStreaming).    *)
(*                                                                         *)
(* One invocation is modelled.  The environment (the backend subprocess,   *)
(* the HTTP client, the Node timers) is drawn in Init and acts through the *)
(* event actions; every handler of the source is one action.               *)
(*                                                                         *)
(* Text is modelled as a sequence of tokens.  The tokens "\n" and " " are  *)
(* the newline and a blank; every other token stands for a run of          *)
(* non-blank characters of the text.  A JSON object is the token "{",      *)
(* the tokens of its fields, and the token "}".  The subprocess's output   *)
(* is a stream of bytes: a run that holds a character of two bytes is two  *)
(* tokens on the wire, cut between the two bytes, and each chunk is        *)
(* decoded by itself (Buffer.prototype.toString).                          *)
(***************************************************************************)
EXTENDS Integers, Sequences, FiniteSets, TLC

\* ---------------------------------------------------------------- bounds
\* Largest number of output lines the backend prints in one invocation.
MaxLines == 2
\* Largest number of output lines of a subprocess that misbehaves (fails
\* its stdin, hangs, ignores SIGTERM, exits non-zero or prints to stderr).
MaxFaultLines == 1

\* ------------------------------------------------------- text primitives
NL == "\n"
SP == " "

IsBlank(t) == t = NL \/ t = SP

RECURSIVE SplitNL(_, _)
\* String.prototype.split('\n'): the segments between newlines; a text
\* ending in a newline yields a final empty segment.  cur is the segment
\* being read.
SplitNL(data, cur) ==
    IF data = <<>> THEN <<cur>>
    ELSE IF Head(data) = NL THEN <<cur>> \o SplitNL(Tail(data), <<>>)
    ELSE SplitNL(Tail(data), Append(cur, Head(data)))

RECURSIVE TrimLeft(_)
TrimLeft(s) == IF s # <<>> /\ IsBlank(Head(s)) THEN TrimLeft(Tail(s)) ELSE s

RECURSIVE TrimRight(_)
TrimRight(s) ==
    IF s # <<>> /\ IsBlank(s[Len(s)]) THEN TrimRight(SubSeq(s, 1, Len(s) - 1)) ELSE s

\* String.prototype.trim
Trim(s) == TrimRight(TrimLeft(s))

\* ------------------------------------------------------ backend protocol
\* Field tokens of an event object.  The first field token is the event
\* type; "assistant" carries a message, "assistant_nomsg" is an event of
\* type assistant without a message field.
TypeTokens == {"assistant", "assistant_nomsg", "system", "result", "other"}
\* Content blocks of the message: text blocks (with their text) and a
\* block that is not text-typed.
\* A text block whose text is one character of two bytes (U+00E9).  On
\* the wire it is LeadTok, the bytes of the block up to and including the
\* character's first byte, and ContTok, its second byte and the rest.
LeadTok == "text:C3"
ContTok == "A9"
\* The block decoded as a whole; what LeadTok and ContTok decode to by
\* themselves: an incomplete or stray byte becomes U+FFFD, leaving a run
\* that is open at its end, and one that is open at its start; and the
\* block the two make when they are concatenated.
WholeBlock == "text:U+00E9"
OpenRun == "text:U+FFFD"
CloseRun == "U+FFFD"
MangledBlock == "text:U+FFFDU+FFFD"

RECURSIVE BufferToString(_)
\* Buffer.prototype.toString() of one chunk: UTF-8 decoding of the bytes
\* of this chunk alone.
BufferToString(data) ==
    IF data = <<>> THEN <<>>
    ELSE IF Head(data) = LeadTok
    THEN (IF Len(data) >= 2 /\ data[2] = ContTok
          THEN <<WholeBlock>> \o BufferToString(SubSeq(data, 3, Len(data)))
          ELSE <<OpenRun>> \o BufferToString(Tail(data)))
    ELSE IF Head(data) = ContTok THEN <<CloseRun>> \o BufferToString(Tail(data))
    ELSE <<Head(data)>> \o BufferToString(Tail(data))

\* s + d of two strings: a run left open by s goes on in d.
Concat(s, d) ==
    IF s # <<>> /\ d # <<>> /\ s[Len(s)] = OpenRun /\ Head(d) = CloseRun
    THEN SubSeq(s, 1, Len(s) - 1) \o <<MangledBlock>> \o Tail(d)
    ELSE s \o d

TextOf(b) ==
    IF b = "text:x" THEN "x" ELSE IF b = "text:y" THEN "y"
    ELSE IF b = WholeBlock THEN "U+00E9"
    ELSE IF b = MangledBlock THEN "U+FFFDU+FFFD" ELSE ""
TextBlocks == {"text:x", "text:y", WholeBlock, MangledBlock}
BlockTokens == TextBlocks \cup {"tool_use"}
\* stop_reason field of the message.
StopTokens == {"stop:end_turn"}
StopOf(t) == IF t = "stop:end_turn" THEN "end_turn" ELSE "null"

\* The tokens of a text without its blanks (JSON whitespace).
NonBlank(text) == SelectSeq(text, LAMBDA t : ~IsBlank(t))

\* JSON.parse(text) succeeds on an event object: "{", a type, content
\* blocks, an optional stop reason, "}"; JSON allows blanks between them.
\* Any other text makes JSON.parse throw.
IsJsonObject(text) ==
    LET t == NonBlank(text) IN
    /\ Len(t) >= 3
    /\ t[1] = "{"
    /\ t[Len(t)] = "}"
    /\ t[2] \in TypeTokens
    /\ \A i \in 3..(Len(t) - 1) :
          \/ t[i] \in BlockTokens
          \/ (t[i] \in StopTokens /\ i = Len(t) - 1)

RECURSIVE JoinText_AllBlocks(_)
\* Mutant of JoinText: the block type is not tested, so a block without a
\* text field appends the string "undefined".
JoinText_AllBlocks(fields) ==
    IF fields = <<>> THEN ""
    ELSE (IF Head(fields) \in TextBlocks THEN TextOf(Head(fields))
          ELSE IF Head(fields) \in BlockTokens THEN "undefined" ELSE "")
         \o JoinText_AllBlocks(Tail(fields))

RECURSIVE JoinText(_)
\* content += block.text for every block with block.type === 'text'
JoinText(fields) ==
    IF fields = <<>> THEN ""
    ELSE (IF Head(fields) \in TextBlocks THEN TextOf(Head(fields)) ELSE "")
         \o JoinText(Tail(fields))

\* message.stop_reason || null
StopReason(fields) ==
    IF fields # <<>> /\ fields[Len(fields)] \in StopTokens
    THEN StopOf(fields[Len(fields)]) ELSE "null"

\* --------------------------------------------------------------- frames
\* One res.write call.  kind is "chunk" (a StreamChunk), "error" (an
\* error-shaped frame) or "done" (the sentinel data: [DONE]).
Frame(k, c, f, e, code) == [kind |-> k, content |-> c, finish |-> f, etype |-> e, code |-> code]
ChunkFrame(c, f) == Frame("chunk", c, f, "", "")
ErrorFrame(e, code) == Frame("error", "", "", e, code)
DoneFrame == Frame("done", "", "", "", "")

\* The frames one output line produces in the stdout handler.
LineFrames(line) ==
    IF Trim(line) = <<>> THEN <<>>
    ELSE IF ~IsJsonObject(line) THEN <<>>
    ELSE LET t == NonBlank(line)
             fields == SubSeq(t, 3, Len(t) - 1)
         IN IF t[2] = "assistant"
            THEN <<ChunkFrame(JoinText(fields), StopReason(fields))>>
            ELSE <<>>

RECURSIVE FramesOfLines(_)
FramesOfLines(lines) ==
    IF lines = <<>> THEN <<>>
    ELSE LineFrames(Head(lines)) \o FramesOfLines(Tail(lines))

\* The stdout 'data' handler of executeStreaming applied to one chunk:
\* data.toString().split('\n'), then each line by itself.
StreamDataHandler(data) == FramesOfLines(SplitNL(BufferToString(data), <<>>))


\* ------------------------------------------------------------ environment
\* The lines the backend may print.
OutputLines ==
    { <<"{", "assistant", "text:x", "}">>,
      <<"{", "assistant", "text:x", "tool_use", "text:y", "stop:end_turn", "}">>,
      <<"{", "system", "}">>,
      <<"not-json">> }

RECURSIVE OutputsOfLen(_)
\* Every output of exactly n lines, each line ended by a newline.
OutputsOfLen(n) ==
    IF n = 0 THEN {<<>>}
    ELSE {l \o <<NL>> \o rest : l \in OutputLines, rest \in OutputsOfLen(n - 1)}

Outputs == UNION {OutputsOfLen(n) : n \in 0..MaxLines}
\* An output, as bytes, with a character of two bytes in it.
Utf8Outputs == {<<"{", "assistant", LeadTok, ContTok, "}", NL>>}
FaultOutputs == UNION {OutputsOfLen(n) : n \in 0..MaxFaultLines}

\* What the backend may print on its standard error.
ErrOutputs == {<<>>, <<"rate-limited">>}

\* Exit status of a subprocess that ends by itself.
OwnExitCodes == {"0", "1"}
\* Exit status reported by 'close' when the child could not be spawned
\* (the negative errno) and when it was ended by a signal (null).
SpawnErrCode == "-2"
SignalCode == "null"

\* One invocation's environment: the entry point called, and how the
\* subprocess behaves.  A child that could not be spawned prints nothing
\* and has no behaviour of its own; one fault is drawn per invocation.
\* Standard error is drawn for the buffered executor, whose outcome
\* carries it, and for subprocesses that end by themselves; so is output
\* with a character of several bytes, which the buffered executor
\* accumulates across chunks (in the streaming executor a chunk boundary
\* inside a character is inside a line, and the line is lost whole).  A subprocess
\* that does not read its standard input lets the write of the payload
\* fail (EPIPE); the write itself never throws for a string, the failure
\* arrives later as an 'error' event of the stdin stream (StdinError).
\* The stdin stream of a child that failed to spawn is destroyed by the
\* exit handler before any write completes and raises no such event.
Envs ==
    { e \in [mode : {"buffered", "streaming"},
             spawnFails : BOOLEAN,    \* spawn emits 'error'
             stdinFails : BOOLEAN,    \* stdin is left unread: the write may fail
             hangs : BOOLEAN,         \* never exits on its own
             ignoresTerm : BOOLEAN,   \* SIGTERM does not end it
             ownCode : OwnExitCodes,
             out : Outputs \cup Utf8Outputs,
             err : ErrOutputs] :
        /\ (e.spawnFails =>
              /\ e.out = <<>> /\ e.err = <<>>
              /\ ~e.hangs /\ ~e.ignoresTerm /\ e.ownCode = "0")
        /\ (e.spawnFails => ~e.stdinFails)
        /\ (e.err # <<>> => (e.mode = "buffered" /\ ~e.hangs))
        /\ (e.out \in Utf8Outputs => e.mode = "buffered")
        /\ (e.hangs => e.ownCode = "0")
        /\ ((e.stdinFails \/ e.hangs \/ e.ignoresTerm \/ e.ownCode # "0" \/ e.err # <<>>)
               => e.out \in FaultOutputs \cup Utf8Outputs) }

\* --------------------------------------------------------------- requests
\* An optional field is a sequence: <<>> when the field is absent
\* (undefined), <<v>> when it is present with value v.
Maybe(S) == {<<>>} \cup {<<v>> : v \in S}

\* Largest number of turns of a request.
MaxTurns == 2

\* config.claude: defaultModel, defaultMaxTokens, defaultTemperature.  The
\* default temperature (0.3) is named by a token, since only its
\* presence matters.
DefaultModel == "sonnet"
DefaultMaxTokens == 2000
DefaultTemperature == "0.3"

\* The turns a request may carry: every role, also one outside the
\* supported three and a missing one, and for the user role a missing, an
\* empty and a two-line content.
ContentTexts == {<<>>, <<"b", NL, "c">>}
Turns ==
    {[role |-> r, content |-> <<(<<"a">>)>>] :
        r \in {"system", "user", "assistant", "tool", "undefined"}}
      \cup {[role |-> "user", content |-> c] : c \in Maybe(ContentTexts)}

RECURSIVE TurnsOfLen(_)
TurnsOfLen(n) ==
    IF n = 0 THEN {<<>>}
    ELSE {<<t>> \o rest : t \in Turns, rest \in TurnsOfLen(n - 1)}

TurnLists == UNION {TurnsOfLen(n) : n \in 0..MaxTurns}

\* The values of the other fields of a request body.
Models == Maybe({"opus"})
MaxTokenValues == Maybe({0, 100})
TemperatureValues == Maybe({"0", "1"})
InputFormats == Maybe({"text", "stream-json", "xml"})
OutputFormats == Maybe({"text", "json", "stream-json", "yaml"})

\* JavaScript truthiness of an optional number and of an optional string.
TruthyNum(m) == m # <<>> /\ m[1] # 0
TruthyStr(m) == m # <<>> /\ m[1] # ""

\* a || b for optional strings
OrElse(m, d) == IF TruthyStr(m) THEN m[1] ELSE d

\* ----------------------------------------------------------- translator
Digit(d) == <<"0", "1", "2", "3", "4", "5", "6", "7", "8", "9">>[d + 1]

RECURSIVE NumStr(_)
\* JSON.stringify of a non-negative integer
NumStr(n) == IF n < 10 THEN Digit(n) ELSE NumStr(n \div 10) \o Digit(n % 10)

\* JSON.stringify(settings): the keys in insertion order.
SettingsBlob(settings) ==
    "{"
    \o (IF settings.maxTokens # <<>> THEN "\"maxTokens\":" \o NumStr(settings.maxTokens[1]) ELSE "")
    \o (IF settings.maxTokens # <<>> /\ settings.temperature # <<>> THEN "," ELSE "")
    \o (IF settings.temperature # <<>> THEN "\"temperature\":" \o settings.temperature[1] ELSE "")
    \o "}"

\* Mutant of SettingsArgs: the settings flag is always passed.
SettingsArgs_Always(request) ==
    <<"--settings",
      SettingsBlob([maxTokens |-> IF TruthyNum(request.max_tokens) THEN request.max_tokens ELSE <<>>,
                    temperature |-> request.temperature])>>

\* if (request.max_tokens || request.temperature !== undefined) { ... }
SettingsArgs(request) ==
    IF TruthyNum(request.max_tokens) \/ request.temperature # <<>>
    THEN <<"--settings",
           SettingsBlob([maxTokens |-> IF TruthyNum(request.max_tokens)
                                       THEN request.max_tokens ELSE <<>>,
                         temperature |-> request.temperature])>>
    ELSE <<>>

\* Mutant of BuildClaudeArgs: --verbose is passed for every output format.
BuildClaudeArgs_VerboseAlways(request, input_format, output_format) ==
    <<"--print", "--dangerously-skip-permissions">>
    \o (IF input_format # "text" THEN <<"--input-format", input_format>> ELSE <<>>)
    \o <<"--output-format", output_format>>
    \o <<"--verbose">>
    \o <<"--model", OrElse(request.model, DefaultModel)>>
    \o SettingsArgs(request)

\* _buildClaudeArgs(request, input_format, output_format)
BuildClaudeArgs(request, input_format, output_format) ==
    <<"--print", "--dangerously-skip-permissions">>
    \o (IF input_format # "text" THEN <<"--input-format", input_format>> ELSE <<>>)
    \o <<"--output-format", output_format>>
    \o (IF output_format = "stream-json" THEN <<"--verbose">> ELSE <<>>)
    \o <<"--model", OrElse(request.model, DefaultModel)>>
    \o SettingsArgs(request)

\* Mutant of StreamingArgs: the model is passed before the output format.
StreamingArgs_ModelFirst(request) ==
    <<"--print", "--dangerously-skip-permissions", "--model",
      OrElse(request.model, DefaultModel), "--output-format", "stream-json", "--verbose">>
    \o SettingsArgs(request)

\* The argument vector executeStreaming builds inline.
StreamingArgs(request) ==
    <<"--print", "--dangerously-skip-permissions", "--output-format", "stream-json",
      "--verbose", "--model", OrElse(request.model, DefaultModel)>>
    \o SettingsArgs(request)

RECURSIVE Join(_, _)
\* Array.prototype.join(sep) of an array of texts
Join(parts, sep) ==
    IF parts = <<>> THEN <<>>
    ELSE IF Len(parts) = 1 THEN Head(parts)
    ELSE Head(parts) \o sep \o Join(Tail(parts), sep)

\* `${msg.content}`: the text of a content, "undefined" when it is absent.
Interpolated(content) == IF content = <<>> THEN <<"undefined">> ELSE content[1]

\* What each turn pushes to textParts.  A user turn pushes msg.content
\* itself, and join renders an undefined element as the empty text; a role
\* outside the three pushes nothing.
TextParts(msg) ==
    IF msg.role = "system" THEN << <<"System:", SP>> \o Interpolated(msg.content) >>
    ELSE IF msg.role = "user" THEN << IF msg.content = <<>> THEN <<>> ELSE msg.content[1] >>
    ELSE IF msg.role = "assistant" THEN << <<"Assistant:", SP>> \o Interpolated(msg.content) >>
    ELSE <<>>

RECURSIVE AllTextParts(_)
AllTextParts(messages) ==
    IF messages = <<>> THEN <<>>
    ELSE TextParts(Head(messages)) \o AllTextParts(Tail(messages))

\* Mutant of ConvertMessagesToText: the turns are joined by one newline.
ConvertMessagesToText_OneNewline(messages) == Join(AllTextParts(messages), <<NL>>)

\* _convertMessagesToText(messages), and the text branch of _prepareInput:
\* textParts.join('\n\n')
ConvertMessagesToText(messages) == Join(AllTextParts(messages), <<NL, NL>>)

\* JSON string escaping: a newline inside a string is written \n.
EscNL == "\\n"
Escape(text) == [i \in 1..Len(text) |-> IF text[i] = NL THEN EscNL ELSE text[i]]
Unescape(text) == [i \in 1..Len(text) |-> IF text[i] = EscNL THEN NL ELSE text[i]]

RoleNames == {"system", "user", "assistant", "tool"}
RoleToken(r) == "role:" \o r
TypeTag(role) == IF role = "user" THEN "type:user" ELSE "type:control"

\* Mutant of TurnObject: the content string is written without escaping.
TurnObject_Raw(msg) ==
    <<"{", TypeTag(msg.role)>>
    \o (IF msg.role = "undefined" THEN <<>> ELSE <<RoleToken(msg.role)>>)
    \o (IF msg.content = <<>> THEN <<>>
        ELSE <<"content:">> \o msg.content[1] \o <<"end">>)
    \o <<"}">>

\* JSON.stringify({type: messageType, role: msg.role, content: msg.content}):
\* "{", the type, the role and the content string between "content:" and
\* "end", "}".  A key whose value is undefined is left out.
TurnObject(msg) ==
    <<"{", TypeTag(msg.role)>>
    \o (IF msg.role = "undefined" THEN <<>> ELSE <<RoleToken(msg.role)>>)
    \o (IF msg.content = <<>> THEN <<>>
        ELSE <<"content:">> \o Escape(msg.content[1]) \o <<"end">>)
    \o <<"}">>

\* The stream-json branch of _prepareInput: jsonLines.join('\n')
JsonLines(messages) ==
    Join([i \in 1..Len(messages) |-> TurnObject(messages[i])], <<NL>>)

\* Mutant of PrepareInput: every input format gets the text rendering.
PrepareInput_TextOnly(request, input_format) ==
    ConvertMessagesToText(request.messages)

\* _prepareInput(request, input_format)
PrepareInput(request, input_format) ==
    IF input_format = "stream-json" THEN JsonLines(request.messages)
    ELSE ConvertMessagesToText(request.messages)

\* JSON.parse(line) succeeds on a turn object.
IsTurnObject(line) ==
    LET t == Trim(line)
        n == Len(t)
        hasRole == n >= 3 /\ \E r \in RoleNames : t[3] = RoleToken(r)
        c == IF hasRole THEN 4 ELSE 3      \* where the content starts, if any
    IN /\ n >= 3
       /\ t[1] = "{" /\ t[n] = "}"
       /\ t[2] \in {"type:user", "type:control"}
       /\ \A i \in 1..n : t[i] # NL
       /\ \/ c = n
          \/ /\ c + 1 < n
             /\ t[c] = "content:" /\ t[n - 1] = "end"
             /\ \A i \in (c + 1)..(n - 2) : t[i] \notin {"{", "}", "content:", "end"}

\* The object JSON.parse(line) returns for a turn object.
ParsedTurn(line) ==
    LET t == Trim(line)
        n == Len(t)
        hasRole == \E r \in RoleNames : t[3] = RoleToken(r)
        c == IF hasRole THEN 4 ELSE 3
    IN [type |-> t[2],
        role |-> IF hasRole THEN CHOOSE r \in RoleNames : t[3] = RoleToken(r) ELSE "undefined",
        content |-> IF c = n THEN <<>> ELSE <<Unescape(SubSeq(t, c + 1, n - 2))>>]

RECURSIVE ParsedLines(_)
\* The loop of _parseStreamJson: the objects of the lines that are not
\* blank and parse, in order; a line that does not parse is skipped.
ParsedLines(lines) ==
    IF lines = <<>> THEN <<>>
    ELSE (IF Trim(Head(lines)) # <<>> /\ IsTurnObject(Head(lines))
          THEN <<ParsedTurn(Head(lines))>> ELSE <<>>)
         \o ParsedLines(Tail(lines))

\* _parseStreamJson(output): messages[messages.length - 1] || { content: '' }
ParseStreamJson(output) ==
    LET messages == ParsedLines(SplitNL(Trim(output), <<>>))
    IN IF messages = <<>> THEN [content |-> <<(<<>>)>>]
       ELSE messages[Len(messages)]

\* ------------------------------------------------- response translation
\* A content value is a string or a list of content blocks.
Str(v) == [t |-> "string", v |-> v]
List(blocks) == [t |-> "list", v |-> blocks]

\* JavaScript truthiness of an optional content value: absent and the
\* empty string are falsy, every list is truthy.
TruthyValue(m) == m # <<>> /\ m[1] # Str("")

\* What JSON.parse of the backend's output may return: a string, null, or
\* an object with any of the fields the translation reads.
ResultFields == Maybe({Str(""), Str("r")})
ContentFields ==
    Maybe({Str(""), Str("c"), List(<<>>), List(<<"text:x">>),
           List(<<"text:x", "tool_use", "text:y">>)})
TextFields == Maybe({Str("t")})
MessageContentFields == Maybe({List(<<"text:x">>)})
InputTokenFields == Maybe({0, 7})
OutputTokenFields == Maybe({5})
StopReasonFields == Maybe({"end_turn", "max_tokens"})

\* An object with none of the optional fields.
EmptyObject ==
    [kind |-> "object", result |-> <<>>, content |-> <<>>, text |-> <<>>,
     messageContent |-> <<>>, input_tokens |-> <<>>, output_tokens |-> <<>>,
     stop_reason |-> <<>>]

\* The objects: every combination of the content fields without usage and
\* stop reason, and every combination of usage and stop reason with and
\* without a result.
TerminalObjects ==
    {[EmptyObject EXCEPT !.result = r, !.content = c, !.text = t, !.messageContent = m] :
        r \in ResultFields, c \in ContentFields, t \in TextFields,
        m \in MessageContentFields}
      \cup {[EmptyObject EXCEPT !.result = r, !.input_tokens = i, !.output_tokens = o,
                                !.stop_reason = st] :
               r \in {<<>>, <<Str("r")>>}, i \in InputTokenFields,
               o \in OutputTokenFields, st \in StopReasonFields}

Terminals ==
    TerminalObjects
      \cup {[EmptyObject EXCEPT !.kind = "string", !.text = <<Str("plain")>>],
            [EmptyObject EXCEPT !.kind = "null"]}

\* The text of the text-typed blocks of a list, in order.
TextsOf(blocks) ==
    LET texts == SelectSeq(blocks, LAMBDA b : b \in TextBlocks)
    IN [i \in 1..Len(texts) |-> TextOf(texts[i])]

RECURSIVE JoinStr(_, _)
\* Array.prototype.join(sep) of an array of strings
JoinStr(parts, sep) ==
    IF parts = <<>> THEN ""
    ELSE IF Len(parts) = 1 THEN Head(parts)
    ELSE Head(parts) \o sep \o JoinStr(Tail(parts), sep)

\* Mutant of ExtractContent: the text field is preferred to the result.
ExtractContent_TextFirst(r) ==
    IF r.kind = "string" THEN r.text[1]
    ELSE IF TruthyValue(r.text) THEN r.text[1]
    ELSE IF TruthyValue(r.result) THEN r.result[1]
    ELSE IF TruthyValue(r.content)
    THEN (IF r.content[1].t = "list"
          THEN Str(JoinStr(TextsOf(r.content[1].v), NL))
          ELSE r.content[1])
    ELSE IF TruthyValue(r.messageContent) THEN r.messageContent[1]
    ELSE Str("")

\* The content extraction of _convertToOpenAiFormat (lines 305-326).
ExtractContent(r) ==
    IF r.kind = "string" THEN r.text[1]
    ELSE IF TruthyValue(r.result) THEN r.result[1]
    ELSE IF TruthyValue(r.content)
    THEN (IF r.content[1].t = "list"
          THEN Str(JoinStr(TextsOf(r.content[1].v), NL))
          ELSE r.content[1])
    ELSE IF TruthyValue(r.text) THEN r.text[1]
    ELSE IF TruthyValue(r.messageContent) THEN r.messageContent[1]
    ELSE Str("")

\* a || 0 for an optional number
OrZero(m) == IF TruthyNum(m) THEN m[1] ELSE 0

\* What Date.now() may return, in milliseconds: two instants of one second
\* and the first instant of the next.
DateNow == {0, 999, 1000}

\* Mutant of ConvertToOpenAiFormat: total_tokens counts the output only.
ConvertToOpenAiFormat_OutputTotal(r, model, requestId, now) ==
    IF r.kind = "null" THEN [kind |-> "TypeError"]
    ELSE [kind |-> "chat.completion",
          id |-> "chatcmpl-" \o requestId,
          created |-> now \div 1000,
          model |-> model,
          content |-> ExtractContent(r),
          finish_reason |-> OrElse(r.stop_reason, "stop"),
          prompt_tokens |-> OrZero(r.input_tokens),
          completion_tokens |-> OrZero(r.output_tokens),
          total_tokens |-> OrZero(r.output_tokens)]

\* _convertToOpenAiFormat(claudeResponse, model, requestId).  Reading a
\* field of null throws a TypeError.  now is what Date.now() returns when
\* the response is built, in milliseconds.
ConvertToOpenAiFormat(r, model, requestId, now) ==
    IF r.kind = "null" THEN [kind |-> "TypeError"]
    ELSE [kind |-> "chat.completion",
          id |-> "chatcmpl-" \o requestId,
          created |-> now \div 1000,
          model |-> model,
          content |-> ExtractContent(r),
          finish_reason |-> OrElse(r.stop_reason, "stop"),
          prompt_tokens |-> OrZero(r.input_tokens),
          completion_tokens |-> OrZero(r.output_tokens),
          total_tokens |-> OrZero(r.input_tokens) + OrZero(r.output_tokens)]

\* x || '' for a content value
OrEmpty(v) == IF TruthyValue(<<v>>) THEN v ELSE Str("")

\* Mutant of AnthropicResponse: the stop reason is passed through.
AnthropicResponse_PassStop(response) ==
    [kind |-> "message",
     id |-> "msg-" \o response.id,
     model |-> response.model,
     text |-> OrEmpty(response.content),
     stop_reason |-> response.finish_reason,
     input_tokens |-> response.prompt_tokens,
     output_tokens |-> response.completion_tokens]

\* The projection built by POST /api/rca: analysis is
\* response.choices[0]?.message?.content || ''.
RcaResponse(response) ==
    [kind |-> "rca",
     id |-> response.id,
     analysis |-> OrEmpty(response.content),
     model |-> response.model,
     created |-> response.created,
     prompt_tokens |-> response.prompt_tokens,
     completion_tokens |-> response.completion_tokens,
     total_tokens |-> response.total_tokens]

\* The Anthropic-shaped projection built by POST /v1/messages.
AnthropicResponse(response) ==
    [kind |-> "message",
     id |-> "msg-" \o response.id,
     model |-> response.model,
     text |-> OrEmpty(response.content),
     stop_reason |-> IF response.finish_reason = "stop" THEN "end_turn" ELSE "max_tokens",
     input_tokens |-> response.prompt_tokens,
     output_tokens |-> response.completion_tokens]

\* ------------------------------------------------------------------ state
VARIABLES
    env,            \* the invocation's environment (see Envs)
    pc,             \* "init": entry point not yet run; "live": handlers registered
    proc,           \* claudeProcess: "none", "failed", "running", "exited"
    exitCode,       \* status the 'close' event will carry
    pos,            \* number of stdout tokens delivered to the 'data' handler
    errorEmitted,   \* the child's 'error' event has been handled
    closeEmitted,   \* the child's 'close' event has been handled
    killCalls,      \* claudeProcess.kill(sig) calls, in order
    sent,           \* signals delivered to the subprocess, in order
    killed,         \* claudeProcess.killed
    spawns,         \* number of spawn() calls of the invocation
    errPos,         \* number of stderr tokens delivered to the 'data' handler
    \* buffered executor (_spawnClaudeProcess)
    stdout,         \* accumulated standard output
    stderr,         \* accumulated standard error
    timeoutHandle,  \* main timer: "unset", "armed", "fired", "cleared"
    escalation,     \* 5 s escalation timer: "unset", "armed", "fired"
    processExited,  \* the termination flag
    outcome,        \* how the promise settled, "pending" before
    detail,         \* what the outcome carries: the parsed value, or code and text
    \* streaming executor (executeStreaming)
    resWrites,      \* res.write calls: the frames written to the sink
    resEndCalls,    \* number of res.end() calls
    resClosed,      \* the sink's 'close' event has been handled
    hasError,
    \* a second invocation in flight in the same server process
    parked,         \* the state of the invocation whose callbacks are not running now
    active,         \* which of the two invocations the variables above belong to
    \* the request and its translation (server.js, execute, executeStreaming)
    entry,          \* how the request came in: "chat", "messages", "rca", "execute", "executeStreaming"
    req,            \* the request: the body, then the object passed to the executor
    opts,           \* the options passed to execute()
    args,           \* the argument vector given to spawn()
    input,          \* the payload written to the subprocess's stdin
    term,           \* what JSON.parse of the backend's JSON output returns
    result,         \* what execute() returned or threw
    reply           \* the HTTP reply sent by res.status().json() / res.json()

procVars == <<proc, exitCode, pos, errorEmitted, closeEmitted>>
killVars == <<killCalls, sent, killed>>
bufVars == <<stdout, timeoutHandle, escalation, processExited, outcome>>
resVars == <<resWrites, resEndCalls, resClosed, hasError>>
errVars == <<errPos, stderr>>
apiVars == <<entry, req, opts, args, input, term, result, reply>>
others == <<parked, active, apiVars>>

\* The request, options and backend answer of an invocation whose request
\* is not under study: the body {messages: [{role: 'user', content: 'a'}]}
\* with no other field, passed to the executor as it is.  prompt is read
\* by POST /api/rca only.
PlainBody ==
    [model |-> <<>>, max_tokens |-> <<>>, temperature |-> <<>>, prompt |-> <<>>,
     messages |-> << << [role |-> "user", content |-> <<(<<"a">>)>>] >> >>,
     input_format |-> <<>>, output_format |-> <<>>, stream |-> FALSE]
NoOptions == [input_format |-> <<>>, output_format |-> <<>>]
PlainTerminal == [EmptyObject EXCEPT !.result = <<Str("r")>>]
NoResult == [kind |-> "none"]
NoReply == [kind |-> "none"]

\* The body with its messages array unwrapped: the request object the
\* executor reads.
Called(body) == [body EXCEPT !.messages = body.messages[1]]

\* The translation an entry point has done when it reaches spawn().
ArgsOf(mode, body, options) ==
    IF mode = "streaming" THEN StreamingArgs(Called(body))
    ELSE BuildClaudeArgs(Called(body), OrElse(options.input_format, "text"),
                         OrElse(options.output_format, "json"))
InputOf(mode, body, options) ==
    IF mode = "streaming" THEN ConvertMessagesToText(body.messages[1])
    ELSE PrepareInput(Called(body), OrElse(options.input_format, "text"))
EntryOf(mode) == IF mode = "streaming" THEN "executeStreaming" ELSE "execute"
vars == <<env, pc, procVars, killVars, bufVars, resVars, spawns, errVars, detail, others>>

\* The state of an invocation of environment e before its entry point runs.
Fresh(e) ==
    [env |-> e, pc |-> "init", proc |-> "none", exitCode |-> "none", pos |-> 0,
     errorEmitted |-> FALSE, closeEmitted |-> FALSE,
     killCalls |-> <<>>, sent |-> <<>>, killed |-> FALSE,
     spawns |-> 0, errPos |-> 0, stdout |-> <<>>, stderr |-> <<>>, detail |-> <<>>,
     timeoutHandle |-> "unset", escalation |-> "unset", processExited |-> FALSE,
     outcome |-> "pending",
     resWrites |-> <<>>, resEndCalls |-> 0, resClosed |-> FALSE, hasError |-> FALSE,
     entry |-> EntryOf(e.mode), req |-> PlainBody, opts |-> NoOptions,
     args |-> ArgsOf(e.mode, PlainBody, NoOptions),
     input |-> InputOf(e.mode, PlainBody, NoOptions),
     term |-> PlainTerminal, result |-> NoResult, reply |-> NoReply]

\* No second invocation.
Absent ==
    [Fresh([mode |-> "none", spawnFails |-> FALSE, stdinFails |-> FALSE, hangs |-> FALSE,
            ignoresTerm |-> FALSE, ownCode |-> "0", out |-> <<>>, err |-> <<>>])
       EXCEPT !.pc = "absent"]

\* The invocation's own state before its entry point runs.
InitOwn ==
    /\ pc = "init"
    /\ proc = "none"
    /\ exitCode = "none"
    /\ pos = 0
    /\ errorEmitted = FALSE
    /\ closeEmitted = FALSE
    /\ killCalls = <<>>
    /\ sent = <<>>
    /\ killed = FALSE
    /\ spawns = 0
    /\ errPos = 0
    /\ stdout = <<>>
    /\ stderr = <<>>
    /\ detail = <<>>
    /\ timeoutHandle = "unset"
    /\ escalation = "unset"
    /\ processExited = FALSE
    /\ outcome = "pending"
    /\ resWrites = <<>>
    /\ resEndCalls = 0
    /\ resClosed = FALSE
    /\ hasError = FALSE

\* An invocation inside its entry point, about to call spawn().
InitCalled ==
    /\ InitOwn
    /\ entry = EntryOf(env.mode)
    /\ req = PlainBody
    /\ opts = NoOptions
    /\ args = ArgsOf(env.mode, PlainBody, NoOptions)
    /\ input = InputOf(env.mode, PlainBody, NoOptions)
    /\ term = PlainTerminal
    /\ result = NoResult
    /\ reply = NoReply

Init ==
    /\ env \in Envs
    /\ InitCalled
    /\ parked = Absent
    /\ active = 1

\* ------------------------------------------------------------- primitives
\* ChildProcess.prototype.kill(sig): the signal is delivered, and killed
\* set, only while the process handle is live; otherwise the call returns
\* false and does nothing.
Kill(sig) ==
    /\ killCalls' = Append(killCalls, sig)
    /\ IF proc = "running"
       THEN sent' = Append(sent, sig) /\ killed' = TRUE
       ELSE UNCHANGED <<sent, killed>>

\* resolve/reject of the promise: only the first call settles it.
Settle(o) == IF outcome = "pending" THEN o ELSE outcome

\* clearTimeout(timeoutHandle) inside cleanup(): cancels an armed timer.
ClearTimeout(h) == IF h = "armed" THEN "cleared" ELSE h

\* cleanup()
Cleanup ==
    /\ timeoutHandle' = ClearTimeout(timeoutHandle)
    /\ processExited' = TRUE

\* spawn(): the state of the child right after the call.
Spawned == IF env.spawnFails THEN "failed" ELSE "running"


\* ------------------------------------------------ the subprocess (environment)
\* The subprocess ends by itself with its own exit status.
ProcExitOwn ==
    /\ pc = "live"
    /\ proc = "running"
    /\ ~env.hangs
    /\ proc' = "exited"
    /\ exitCode' = env.ownCode
    /\ UNCHANGED <<env, others, spawns, errVars, detail, pc, pos, errorEmitted, closeEmitted, killVars, bufVars, resVars>>

\* A delivered signal ends the subprocess: SIGKILL always, SIGTERM unless
\* the subprocess ignores it.  'close' then carries code null.
SignalEnds ==
    \E i \in 1..Len(sent) :
        sent[i] = "SIGKILL" \/ (sent[i] = "SIGTERM" /\ ~env.ignoresTerm)

ProcExitSignal ==
    /\ pc = "live"
    /\ proc = "running"
    /\ SignalEnds
    /\ proc' = "exited"
    /\ exitCode' = SignalCode
    /\ UNCHANGED <<env, others, spawns, errVars, detail, pc, pos, errorEmitted, closeEmitted, killVars, bufVars, resVars>>

\* The write of the payload fails because the subprocess closed or never
\* read its standard input: claudeProcess.stdin emits 'error', for which
\* neither executor registers a listener.  Node raises it as an uncaught
\* exception, and the server's handler ends the process with
\* process.exit(1): no callback of any invocation runs any more, no reply
\* or frame is written, no timer fires, and the subprocesses are neither
\* signalled nor reaped.  The stream's 'error' precedes the child's
\* 'close', which waits for the stdio streams to close.  Whether the write
\* fails before the subprocess is done is a race; it need not happen.
StdinError ==
    /\ pc = "live"
    /\ env.stdinFails
    /\ proc \in {"running", "exited"}
    /\ ~closeEmitted
    /\ pc' = "crashed"
    /\ parked' = IF parked.pc = "absent" THEN parked ELSE [parked EXCEPT !.pc = "crashed"]
    /\ UNCHANGED <<env, active, apiVars, spawns, errVars, detail, procVars, killVars, bufVars, resVars>>

\* The child's stdout has a next chunk to deliver: 'data' events come
\* before 'close', and a child that failed to spawn prints nothing.
StdoutReady ==
    /\ pc = "live"
    /\ proc \in {"running", "exited"}
    /\ ~closeEmitted
    /\ pos < Len(env.out)

\* The child's stderr has a next chunk to deliver.
StderrReady ==
    /\ pc = "live"
    /\ proc \in {"running", "exited"}
    /\ ~closeEmitted
    /\ errPos < Len(env.err)

\* The 'error' event of a child that could not be spawned.
ErrorReady == pc = "live" /\ proc = "failed" /\ ~errorEmitted

\* The 'close' event: after 'error' for a child that failed to spawn;
\* otherwise after the exit, once stdout and stderr are drained (a child
\* ended by a signal may not have printed all of its output).
CloseReady ==
    /\ pc = "live"
    /\ ~closeEmitted
    /\ \/ proc = "failed" /\ errorEmitted
       \/ /\ proc = "exited"
          /\ \/ (pos = Len(env.out) /\ errPos = Len(env.err))
             \/ exitCode = SignalCode

\* The status the 'close' event carries.
CloseCode == IF proc = "failed" THEN SpawnErrCode ELSE exitCode


\* claudeProcess.stderr.on('data'): stderr += data (stderrData += data in
\* executeStreaming); the same handler in both executors.
StderrData ==
    /\ StderrReady
    /\ \E n \in 1..(Len(env.err) - errPos) :
          /\ stderr' = Concat(stderr, BufferToString(SubSeq(env.err, errPos + 1, errPos + n)))
          /\ errPos' = errPos + n
    /\ UNCHANGED <<env, others, spawns, detail, pc, procVars, killVars, bufVars, resVars>>

\* ------------------------------------------- streaming: executeStreaming
\* The synchronous body of executeStreaming: spawn, register the handlers,
\* write the input to stdin, register the client-disconnect hook.  The
\* input is a string, for which stdin.write() and stdin.end() do not
\* throw: the catch block (error frame, sentinel, res.end()) is never
\* entered, and a failed write is the later event StdinError.
SStart ==
    /\ pc = "init"
    /\ env.mode = "streaming"
    /\ pc' = "live"
    /\ proc' = Spawned
    /\ spawns' = spawns + 1
    /\ UNCHANGED <<env, others, errVars, detail, exitCode, pos, errorEmitted, closeEmitted, killVars,
                   bufVars, resVars>>

\* claudeProcess.stdout.on('data'): every line of the chunk is parsed by
\* itself and the assistant events are written as StreamChunks.
SStdoutData ==
    /\ env.mode = "streaming"
    /\ StdoutReady
    /\ \E n \in 1..(Len(env.out) - pos) :
          /\ resWrites' = resWrites \o StreamDataHandler(SubSeq(env.out, pos + 1, pos + n))
          /\ pos' = pos + n
    /\ UNCHANGED <<env, others, spawns, errVars, detail, pc, proc, exitCode, errorEmitted, closeEmitted, killVars, bufVars,
                   resEndCalls, resClosed, hasError>>

\* claudeProcess.on('error')
SOnError ==
    /\ env.mode = "streaming"
    /\ ErrorReady
    /\ errorEmitted' = TRUE
    /\ hasError' = TRUE
    /\ resWrites' = resWrites \o <<ErrorFrame("spawn_error", ""), DoneFrame>>
    /\ resEndCalls' = resEndCalls + 1
    /\ UNCHANGED <<env, others, spawns, errVars, detail, pc, proc, exitCode, pos, closeEmitted, killVars, bufVars, resClosed>>

\* The frames the 'close' handler writes for exit status code.
CloseFrames(code) ==
    (IF code # "0" THEN <<ErrorFrame("execution_error", code)>> ELSE <<>>) \o <<DoneFrame>>

\* claudeProcess.on('close')
SOnClose ==
    /\ env.mode = "streaming"
    /\ CloseReady
    /\ closeEmitted' = TRUE
    /\ hasError' = (hasError \/ CloseCode # "0")
    /\ resWrites' = resWrites \o CloseFrames(CloseCode)
    /\ resEndCalls' = resEndCalls + 1
    /\ UNCHANGED <<env, others, spawns, errVars, detail, pc, proc, exitCode, pos, errorEmitted, killVars, bufVars, resClosed>>

\* Mutant of ResClose: the hook signals the process id itself, whether or
\* not the subprocess still runs.
ResClose_RawKill ==
    /\ env.mode = "streaming"
    /\ pc = "live"
    /\ ~resClosed
    /\ resClosed' = TRUE
    /\ killCalls' = Append(killCalls, "SIGTERM")
    /\ sent' = Append(sent, "SIGTERM")
    /\ killed' = TRUE
    /\ UNCHANGED <<env, others, spawns, errVars, detail, pc, procVars, bufVars, resWrites, resEndCalls, hasError>>

\* Mutant of ResClose: the hook does not signal the subprocess.
ResClose_NoKill ==
    /\ env.mode = "streaming"
    /\ pc = "live"
    /\ ~resClosed
    /\ resClosed' = TRUE
    /\ UNCHANGED <<env, others, spawns, errVars, detail, pc, procVars, killVars, bufVars, resWrites, resEndCalls, hasError>>

\* res.on('close'): the client disconnected, or the connection closed
\* after the response ended.
ResClose ==
    /\ env.mode = "streaming"
    /\ pc = "live"
    /\ ~resClosed
    /\ resClosed' = TRUE
    /\ IF ~killed THEN Kill("SIGTERM") ELSE UNCHANGED killVars
    /\ UNCHANGED <<env, others, spawns, errVars, detail, pc, procVars, bufVars, resWrites, resEndCalls, hasError>>

\* ------------------------------------------ buffered: _spawnClaudeProcess
\* The synchronous body of the promise executor: spawn, register the
\* handlers, write the input to stdin, then setupTimeout().  The input is
\* a string, for which stdin.write() and stdin.end() do not throw: the
\* catch block (cleanup, reject, return) is never entered, and a failed
\* write is the later event StdinError.
BStart ==
    /\ pc = "init"
    /\ env.mode = "buffered"
    /\ pc' = "live"
    /\ proc' = Spawned
    /\ spawns' = spawns + 1
    /\ timeoutHandle' = "armed"
    /\ UNCHANGED <<processExited, outcome>>
    /\ UNCHANGED <<env, others, errVars, detail, exitCode, pos, errorEmitted, closeEmitted, killVars,
                   stdout, escalation, resVars>>

\* claudeProcess.stdout.on('data'): stdout += data.toString().  The chunk
\* is a Buffer (no setEncoding, no StringDecoder) and is decoded by
\* itself, wherever the chunk boundary falls.
BStdoutData ==
    /\ env.mode = "buffered"
    /\ StdoutReady
    /\ \E n \in 1..(Len(env.out) - pos) :
          /\ stdout' = Concat(stdout, BufferToString(SubSeq(env.out, pos + 1, pos + n)))
          /\ pos' = pos + n
    /\ UNCHANGED <<env, others, spawns, errVars, detail, pc, proc, exitCode, errorEmitted, closeEmitted, killVars,
                   timeoutHandle, escalation, processExited, outcome, resVars>>

\* Mutant of BOnError: the handler rejects without running cleanup().
BOnError_NoCleanup ==
    /\ env.mode = "buffered"
    /\ ErrorReady
    /\ errorEmitted' = TRUE
    /\ outcome' = Settle("spawn_error")
    /\ UNCHANGED <<env, others, spawns, errVars, detail, pc, proc, exitCode, pos, closeEmitted, killVars,
                   stdout, timeoutHandle, processExited, escalation, resVars>>

\* claudeProcess.on('error')
BOnError ==
    /\ env.mode = "buffered"
    /\ ErrorReady
    /\ errorEmitted' = TRUE
    /\ Cleanup
    /\ outcome' = Settle("spawn_error")
    /\ UNCHANGED <<env, others, spawns, errVars, detail, pc, proc, exitCode, pos, closeEmitted, killVars, stdout,
                   escalation, resVars>>

\* Mutant of CloseOutcome: output that is not JSON is resolved as a text
\* response instead of being rejected.
CloseOutcome_TextFallback(code, out) ==
    IF code # "0" THEN "exec_error" ELSE "response"

\* What the 'close' handler settles the promise with.
CloseOutcome(code, out) ==
    IF code # "0" THEN "exec_error"
    ELSE IF IsJsonObject(out) THEN "response"
    ELSE "parse_error"

\* Mutant of CloseDetail: the error text prefers stdout over stderr.
CloseDetail_StdoutFirst(code, out, err) ==
    IF code # "0"
    THEN <<code>> \o (IF out # <<>> THEN out ELSE IF err # <<>> THEN err ELSE <<"Unknown error">>)
    ELSE IF IsJsonObject(out) THEN NonBlank(out)
    ELSE <<>>

\* What that outcome carries.  A non-zero status: the code and
\* stderr || stdout || 'Unknown error'.  Status 0: the value JSON.parse
\* returned; the parse error carries neither.
CloseDetail(code, out, err) ==
    IF code # "0"
    THEN <<code>> \o (IF err # <<>> THEN err ELSE IF out # <<>> THEN out ELSE <<"Unknown error">>)
    ELSE IF IsJsonObject(out) THEN NonBlank(out)
    ELSE <<>>

\* Mutant of BOnClose: the termination flag and the timer handle are kept
\* on the executor object, which every invocation shares.
BOnClose_SharedFlag ==
    /\ env.mode = "buffered"
    /\ CloseReady
    /\ closeEmitted' = TRUE
    /\ Cleanup
    /\ parked' = [parked EXCEPT !.processExited = TRUE,
                                !.timeoutHandle = ClearTimeout(@)]
    /\ outcome' = Settle(CloseOutcome(CloseCode, stdout))
    /\ detail' = IF outcome = "pending" THEN CloseDetail(CloseCode, stdout, stderr) ELSE detail
    /\ UNCHANGED <<env, active, apiVars, spawns, errVars, pc, proc, exitCode, pos, errorEmitted, killVars,
                   stdout, escalation, resVars>>

\* claudeProcess.on('close')
BOnClose ==
    /\ env.mode = "buffered"
    /\ CloseReady
    /\ closeEmitted' = TRUE
    /\ Cleanup
    /\ outcome' = Settle(CloseOutcome(CloseCode, stdout))
    /\ detail' = IF outcome = "pending" THEN CloseDetail(CloseCode, stdout, stderr) ELSE detail
    /\ UNCHANGED <<env, others, spawns, errVars, pc, proc, exitCode, pos, errorEmitted, killVars, stdout,
                   escalation, resVars>>

\* Mutant of TimeoutFires: the callback signals but does not reject.
TimeoutFires_NoReject ==
    /\ pc = "live"
    /\ timeoutHandle = "armed"
    /\ ~ErrorReady
    /\ timeoutHandle' = "fired"
    /\ IF ~processExited
       THEN /\ Kill("SIGTERM")
            /\ escalation' = "armed"
       ELSE UNCHANGED <<killVars, escalation>>
    /\ UNCHANGED <<env, others, spawns, errVars, detail, pc, procVars, stdout, processExited, outcome,
                   resVars>>

\* Mutant of TimeoutFires: the escalation timer is not armed.
TimeoutFires_NoEscalation ==
    /\ pc = "live"
    /\ timeoutHandle = "armed"
    /\ ~ErrorReady
    /\ timeoutHandle' = "fired"
    /\ IF ~processExited
       THEN /\ Kill("SIGTERM")
            /\ outcome' = Settle("timeout")
       ELSE UNCHANGED <<killVars, outcome>>
    /\ UNCHANGED <<env, others, spawns, errVars, detail, pc, procVars, stdout, escalation, processExited, resVars>>

\* The callback of the main timer (config.claude.timeout): SIGTERM, arm
\* the escalation timer, reject with the timeout error.  The 'error' of a
\* failed spawn is emitted on the next tick, before any timer can run.
TimeoutFires ==
    /\ pc = "live"
    /\ timeoutHandle = "armed"
    /\ ~ErrorReady
    /\ timeoutHandle' = "fired"
    /\ IF ~processExited
       THEN /\ Kill("SIGTERM")
            /\ escalation' = "armed"
            /\ outcome' = Settle("timeout")
       ELSE UNCHANGED <<killVars, escalation, outcome>>
    /\ UNCHANGED <<env, others, spawns, errVars, detail, pc, procVars, stdout, processExited, resVars>>

\* Mutant of EscalationFires: the callback signals without testing
\* processExited.
EscalationFires_Unchecked ==
    /\ pc = "live"
    /\ escalation = "armed"
    /\ escalation' = "fired"
    /\ Kill("SIGKILL")
    /\ UNCHANGED <<env, others, spawns, errVars, detail, pc, procVars, stdout, timeoutHandle, processExited, outcome, resVars>>

\* The callback of the escalation timer, 5000 ms after SIGTERM.
EscalationFires ==
    /\ pc = "live"
    /\ escalation = "armed"
    /\ escalation' = "fired"
    /\ IF ~processExited THEN Kill("SIGKILL") ELSE UNCHANGED killVars
    /\ UNCHANGED <<env, others, spawns, errVars, detail, pc, procVars, stdout, timeoutHandle, processExited, outcome, resVars>>

\* ---------------------------------------------------------- specification
Next ==
    \/ SStart \/ SStdoutData \/ SOnError \/ SOnClose \/ ResClose
    \/ BStart \/ BStdoutData \/ BOnError \/ BOnClose
    \/ TimeoutFires \/ EscalationFires
    \/ ProcExitOwn \/ ProcExitSignal \/ StderrData
    \/ StdinError

Spec == Init /\ [][Next]_vars

\* While the server process lives, Node runs every ready callback and
\* fires every armed timer; a subprocess that does not hang ends, and one
\* that got a signal it obeys ends.  The client's disconnect and the
\* failure of the stdin write are not bound to happen; after StdinError
\* the process is gone and none of these actions is enabled.
Fairness ==
    /\ WF_vars(SStart) /\ WF_vars(SStdoutData) /\ WF_vars(SOnError) /\ WF_vars(SOnClose)
    /\ WF_vars(BStart) /\ WF_vars(BStdoutData) /\ WF_vars(BOnError) /\ WF_vars(BOnClose)
    /\ WF_vars(TimeoutFires) /\ WF_vars(EscalationFires)
    /\ WF_vars(ProcExitOwn) /\ WF_vars(ProcExitSignal) /\ WF_vars(StderrData)

FairSpec == Spec /\ Fairness

\* ------------------------------------------------- two invocations in flight
\* The state of the invocation whose callbacks are running.
Own ==
    [env |-> env, pc |-> pc, proc |-> proc, exitCode |-> exitCode, pos |-> pos,
     errorEmitted |-> errorEmitted, closeEmitted |-> closeEmitted,
     killCalls |-> killCalls, sent |-> sent, killed |-> killed,
     spawns |-> spawns, errPos |-> errPos, stdout |-> stdout, stderr |-> stderr,
     detail |-> detail,
     timeoutHandle |-> timeoutHandle, escalation |-> escalation,
     processExited |-> processExited, outcome |-> outcome,
     resWrites |-> resWrites, resEndCalls |-> resEndCalls, resClosed |-> resClosed,
     hasError |-> hasError,
     entry |-> entry, req |-> req, opts |-> opts, args |-> args, input |-> input,
     term |-> term, result |-> result, reply |-> reply]

\* The event loop turns to a callback of the other invocation.  Each call
\* of an entry point has its own closure (claudeProcess, stdout, stderr,
\* timeoutHandle, processExited, hasError, res); no state is kept on the
\* executor objects or at module level.
Switch ==
    /\ parked.pc # "absent"
    /\ pc # "crashed"
    /\ active' = 3 - active
    /\ parked' = Own
    /\ env' = parked.env /\ pc' = parked.pc
    /\ proc' = parked.proc /\ exitCode' = parked.exitCode /\ pos' = parked.pos
    /\ errorEmitted' = parked.errorEmitted /\ closeEmitted' = parked.closeEmitted
    /\ killCalls' = parked.killCalls /\ sent' = parked.sent /\ killed' = parked.killed
    /\ spawns' = parked.spawns /\ errPos' = parked.errPos
    /\ stdout' = parked.stdout /\ stderr' = parked.stderr /\ detail' = parked.detail
    /\ timeoutHandle' = parked.timeoutHandle /\ escalation' = parked.escalation
    /\ processExited' = parked.processExited /\ outcome' = parked.outcome
    /\ resWrites' = parked.resWrites /\ resEndCalls' = parked.resEndCalls
    /\ resClosed' = parked.resClosed /\ hasError' = parked.hasError
    /\ entry' = parked.entry /\ req' = parked.req /\ opts' = parked.opts
    /\ args' = parked.args /\ input' = parked.input
    /\ term' = parked.term /\ result' = parked.result /\ reply' = parked.reply

\* The environments drawn for a pair of invocations: a stream of one
\* event, a buffered call that answers, one whose backend fails with a
\* message (having read its standard input or not), one whose backend
\* hangs and ignores SIGTERM, and a failed spawn of either executor.
PairEnvs ==
    { e \in Envs :
        /\ (e.stdinFails => e.err # <<>>)
        /\ e.out \in {<<>>, <<"{", "assistant", "text:x", "}", NL>>}
        /\ \/ e.spawnFails
           \/ /\ e.mode = "streaming" /\ e.out # <<>>
              /\ ~e.hangs /\ ~e.ignoresTerm /\ e.ownCode = "0"
           \/ /\ e.mode = "buffered" /\ e.out # <<>> /\ e.err = <<>>
              /\ ~e.hangs /\ ~e.ignoresTerm /\ e.ownCode = "0"
           \/ /\ e.mode = "buffered" /\ e.out = <<>> /\ e.err # <<>>
              /\ ~e.ignoresTerm /\ e.ownCode = "1"
           \/ /\ e.mode = "buffered" /\ e.out = <<>>
              /\ e.hangs /\ e.ignoresTerm }

PairInit ==
    /\ env \in PairEnvs
    /\ InitCalled
    /\ parked \in {Fresh(e) : e \in PairEnvs}
    /\ active = 1

PairNext == Next \/ Switch

PairSpec == PairInit /\ [][PairNext]_vars

\* ------------------------------------------------------------- endpoints
\* Everything the request handling leaves alone: the subprocess and the
\* executor's closure.
execVars ==
    <<env, procVars, killVars, bufVars, resVars, spawns, errVars, detail, parked, active>>

RequestId == "r1"

ErrorReply(status, type, code) ==
    [kind |-> "error", status |-> status, type |-> type, code |-> code]

\* The middleware errorHandler for an error a handler passed to next()
\* after setting statusCode = 500 and type: the code is
\* err.code || 'unknown_error', and neither the errors the executor
\* rejects with (new Error(...)) nor a TypeError have a code.
ErrorHandler(type) == ErrorReply(500, type, "unknown_error")
JsonReply(body) == [kind |-> "json", status |-> 200, body |-> body]

\* !messages || !Array.isArray(messages) || messages.length === 0
NoMessages(body) == body.messages = <<>> \/ body.messages[1] = <<>>

\* !msg.role || !msg.content
MissingField(msg) ==
    msg.role = "undefined" \/ msg.content = <<>> \/ msg.content[1] = <<>>

RECURSIVE TurnErrors(_)
\* The loop of validateChatCompletionRequest: the error code of the first
\* turn that fails a test, "" when every turn passes.
TurnErrors(messages) ==
    IF messages = <<>> THEN ""
    ELSE IF MissingField(Head(messages)) THEN "invalid_message_format"
    ELSE IF Head(messages).role \notin {"system", "user", "assistant"} THEN "invalid_role"
    ELSE TurnErrors(Tail(messages))

\* Mutant of ValidationError: the role is not tested.
ValidationError_AnyRole(body) ==
    IF NoMessages(body) THEN "invalid_messages"
    ELSE IF \E i \in 1..Len(body.messages[1]) : MissingField(body.messages[1][i])
    THEN "invalid_message_format"
    ELSE ""

\* The error code validateChatCompletionRequest answers with, "" when it
\* calls next().
ValidationError(body) ==
    IF NoMessages(body) THEN "invalid_messages" ELSE TurnErrors(body.messages[1])

\* The middleware validateChatCompletionRequest of POST /v1/chat/completions
ValidateChatCompletionRequest ==
    /\ entry = "chat"
    /\ pc = "received"
    /\ IF ValidationError(req) # ""
       THEN /\ reply' = ErrorReply(400, "invalid_request_error", ValidationError(req))
            /\ pc' = "done"
       ELSE /\ pc' = "validated"
            /\ UNCHANGED reply
    /\ UNCHANGED <<execVars, entry, req, opts, args, input, term, result>>

\* The formats the handler of /v1/chat/completions works with.
InputFormatOf(body) == OrElse(body.input_format, "text")
OutputFormatOf(body) ==
    OrElse(body.output_format, IF body.stream THEN "stream-json" ELSE "json")

\* The handler of POST /v1/chat/completions up to the call of the
\* executor (lines 121-169).
ChatCompletions ==
    /\ entry = "chat"
    /\ pc = "validated"
    /\ IF InputFormatOf(req) \notin {"text", "stream-json"}
       THEN /\ reply' = ErrorReply(400, "invalid_request_error", "invalid_input_format")
            /\ pc' = "done"
            /\ UNCHANGED opts
       ELSE IF OutputFormatOf(req) \notin {"text", "json", "stream-json"}
       THEN /\ reply' = ErrorReply(400, "invalid_request_error", "invalid_output_format")
            /\ pc' = "done"
            /\ UNCHANGED opts
       ELSE /\ opts' = [input_format |-> <<InputFormatOf(req)>>,
                        output_format |-> <<OutputFormatOf(req)>>]
            /\ pc' = "call"
            /\ UNCHANGED reply
    /\ UNCHANGED <<execVars, entry, req, args, input, term, result>>

\* The handler of POST /v1/messages up to the call of the executor
\* (lines 204-237).
Messages ==
    /\ entry = "messages"
    /\ pc = "received"
    /\ IF NoMessages(req)
       THEN /\ reply' = ErrorReply(400, "invalid_request_error", "missing_messages")
            /\ pc' = "done"
            /\ UNCHANGED <<req, opts>>
       ELSE /\ req' = [req EXCEPT
                         !.model = <<OrElse(req.model, DefaultModel)>>,
                         !.max_tokens = IF TruthyNum(req.max_tokens) THEN req.max_tokens
                                        ELSE <<DefaultMaxTokens>>,
                         !.temperature = IF req.temperature # <<>> THEN req.temperature
                                         ELSE <<DefaultTemperature>>,
                         !.input_format = <<>>, !.output_format = <<>>, !.stream = FALSE]
            /\ opts' = [input_format |-> <<"text">>, output_format |-> <<"json">>]
            /\ pc' = "call"
            /\ UNCHANGED reply
    /\ UNCHANGED <<execVars, entry, args, input, term, result>>

\* The handler of POST /api/rca up to the call of the executor
\* (lines 276-313): a missing or empty prompt is answered with 400, any
\* other becomes the one user turn of a request with the defaults filled
\* in.
Rca ==
    /\ entry = "rca"
    /\ pc = "received"
    /\ IF req.prompt = <<>> \/ req.prompt[1] = <<>>
       THEN /\ reply' = ErrorReply(400, "invalid_request_error", "missing_prompt")
            /\ pc' = "done"
            /\ UNCHANGED <<req, opts>>
       ELSE /\ req' = [req EXCEPT
                         !.model = <<OrElse(req.model, DefaultModel)>>,
                         !.messages = << << [role |-> "user", content |-> req.prompt] >> >>,
                         !.max_tokens = IF TruthyNum(req.max_tokens) THEN req.max_tokens
                                        ELSE <<DefaultMaxTokens>>,
                         !.temperature = IF req.temperature # <<>> THEN req.temperature
                                         ELSE <<DefaultTemperature>>,
                         !.prompt = <<>>,
                         !.input_format = <<>>, !.output_format = <<>>, !.stream = FALSE]
            /\ opts' = [input_format |-> <<"text">>, output_format |-> <<"json">>]
            /\ pc' = "call"
            /\ UNCHANGED reply
    /\ UNCHANGED <<execVars, entry, args, input, term, result>>

\* execute(request, options) up to the call of _spawnClaudeProcess
\* (lines 23-59).
Execute ==
    /\ env.mode = "buffered"
    /\ pc = "call"
    /\ args' = ArgsOf("buffered", req, opts)
    /\ input' = InputOf("buffered", req, opts)
    /\ pc' = "init"
    /\ UNCHANGED <<execVars, entry, req, opts, term, result, reply>>

\* Mutant of ExecuteStreaming: the payload follows the requested input
\* format.
ExecuteStreaming_InputFormat ==
    /\ env.mode = "streaming"
    /\ pc = "call"
    /\ args' = ArgsOf("streaming", req, opts)
    /\ input' = PrepareInput(Called(req), OrElse(req.input_format, "text"))
    /\ pc' = "init"
    /\ UNCHANGED <<execVars, entry, req, opts, term, result, reply>>

\* executeStreaming(request, res) up to the call of spawn (lines 22-60).
ExecuteStreaming ==
    /\ env.mode = "streaming"
    /\ pc = "call"
    /\ args' = ArgsOf("streaming", req, opts)
    /\ input' = InputOf("streaming", req, opts)
    /\ pc' = "init"
    /\ UNCHANGED <<execVars, entry, req, opts, term, result, reply>>

\* What execute() returns or throws once the promise has settled.
Returned(now) ==
    IF outcome = "response"
    THEN ConvertToOpenAiFormat(term, OrElse(req.model, DefaultModel), RequestId, now)
    ELSE [kind |-> outcome]

\* The rest of execute() after the await (lines 61-84) and of the handler
\* that called it: res.json of the response or of its projection, or
\* next(error) with status 500 and the handler's type, answered by the
\* errorHandler middleware.
Completed ==
    /\ env.mode = "buffered"
    /\ pc = "live"
    /\ outcome # "pending"
    /\ result = NoResult
    /\ \E now \in DateNow :
          /\ result' = Returned(now)
          /\ reply' =
               IF entry = "chat"
               THEN (IF Returned(now).kind = "chat.completion" THEN JsonReply(Returned(now))
                     ELSE ErrorHandler("claude_execution_error"))
               ELSE IF entry = "messages"
               THEN (IF Returned(now).kind = "chat.completion"
                     THEN JsonReply(AnthropicResponse(Returned(now)))
                     ELSE ErrorHandler("anthropic_api_error"))
               ELSE IF entry = "rca"
               THEN (IF Returned(now).kind = "chat.completion"
                     THEN JsonReply(RcaResponse(Returned(now)))
                     ELSE ErrorHandler("rca_execution_error"))
               ELSE reply
    /\ UNCHANGED <<execVars, pc, entry, req, opts, args, input, term>>

\* The executor a request is routed to.
RoutedMode(e, body) ==
    IF e = "executeStreaming" THEN "streaming"
    ELSE IF e = "chat" /\ OutputFormatOf(body) = "stream-json" THEN "streaming"
    ELSE "buffered"

\* A backend that answers with one JSON result object and exits with 0.
ResultLine == <<"{", "result", "}", NL>>
Answering(mode) ==
    [mode |-> mode, spawnFails |-> FALSE, stdinFails |-> FALSE, hangs |-> FALSE,
     ignoresTerm |-> FALSE, ownCode |-> "0", out |-> ResultLine, err |-> <<>>]

\* The value JSON.parse returns for an event object of the stream
\* protocol: its content blocks are message.content.
EventValue(t) ==
    [EmptyObject EXCEPT
       !.messageContent =
          IF t[2] = "assistant"
          THEN <<List(SelectSeq(t, LAMBDA x : x \in BlockTokens))>> ELSE <<>>]

\* The requests, backends and backend answers the endpoints are run with.
\* One of three things varies at a time: the turns (or the prompt) and
\* the formats; the options of the request; the backend's answer or its
\* behaviour.
Entries == {"chat", "messages", "execute", "executeStreaming"}

TurnStarts ==
    {[entry |-> e, req |-> [PlainBody EXCEPT !.messages = m], term |-> PlainTerminal] :
        e \in Entries, m \in Maybe(TurnLists)}
      \cup {[entry |-> "chat",
             req |-> [PlainBody EXCEPT !.messages = m, !.input_format = i,
                                       !.output_format = o],
             term |-> PlainTerminal] :
               m \in Maybe(TurnLists),
               i \in {<<>>, <<"stream-json">>}, o \in {<<>>, <<"stream-json">>}}
      \cup {[entry |-> "execute",
             req |-> [PlainBody EXCEPT !.messages = m, !.input_format = <<"stream-json">>],
             term |-> PlainTerminal] :
               m \in Maybe(TurnLists)}

OptionStarts ==
    {[entry |-> e,
      req |-> [PlainBody EXCEPT !.model = mo, !.max_tokens = mt, !.temperature = te,
                                !.input_format = i],
      term |-> PlainTerminal] :
        e \in Entries, mo \in Models, mt \in MaxTokenValues, te \in TemperatureValues,
        i \in {<<>>, <<"stream-json">>}}
      \cup {[entry |-> e,
             req |-> [PlainBody EXCEPT !.input_format = i, !.output_format = o,
                                       !.stream = st],
             term |-> PlainTerminal] :
               e \in Entries, i \in InputFormats, o \in OutputFormats, st \in BOOLEAN}

AnswerStarts ==
    {[entry |-> e, req |-> PlainBody, term |-> t] :
        e \in {"chat", "messages", "execute"}, t \in Terminals}

\* The body {prompt: 'a'} of POST /api/rca.
RcaBody == [PlainBody EXCEPT !.messages = <<>>, !.prompt = <<(<<"a">>)>>]

\* Requests to POST /api/rca: the prompt missing, empty or given, with the
\* options of the request; and the prompt 'a' with every backend answer.
RcaStarts ==
    {[entry |-> "rca",
      req |-> [RcaBody EXCEPT !.prompt = p, !.model = mo, !.max_tokens = mt,
                              !.temperature = te],
      term |-> PlainTerminal] :
        p \in {<<>>, <<(<<>>)>>, <<(<<"a">>)>>},
        mo \in Models, mt \in MaxTokenValues, te \in TemperatureValues}
      \cup {[entry |-> "rca", req |-> RcaBody, term |-> t] : t \in Terminals}

\* A start of the first four kinds, with the backend that answers.
AnsweredStarts ==
    {[entry |-> s.entry, req |-> s.req, term |-> s.term,
      env |-> Answering(RoutedMode(s.entry, s.req))] :
        s \in {x \in TurnStarts \cup OptionStarts \cup AnswerStarts \cup RcaStarts :
                 x.entry \in {"execute", "executeStreaming"} => x.req.messages # <<>>}}

\* A plain request with every behaviour of the backend.
BackendStart(e, b) ==
    [entry |-> e,
     req |-> [PlainBody EXCEPT
                !.output_format = IF b.mode = "streaming" THEN <<"stream-json">> ELSE <<>>],
     term |-> IF IsJsonObject(b.out) THEN EventValue(NonBlank(b.out)) ELSE PlainTerminal,
     env |-> b]
BackendStarts ==
    {BackendStart("chat", b) : b \in PairEnvs}
      \cup {[BackendStart("rca", b) EXCEPT !.req = RcaBody] :
               b \in {e \in PairEnvs : e.mode = "buffered"}}
      \cup {BackendStart(EntryOf(b.mode), b) : b \in PairEnvs}

\* A backend that prints plain text, as the CLI does for --output-format
\* text, and exits with 0.
PlainLine == <<"not-json", NL>>
PrintingText(mode) == [Answering(mode) EXCEPT !.out = PlainLine]

\* A request for text output, answered in plain text.
TextStarts ==
    {[entry |-> e, req |-> [PlainBody EXCEPT !.output_format = <<"text">>],
      term |-> PlainTerminal, env |-> PrintingText("buffered")] :
        e \in {"chat", "execute"}}

ApiStarts == AnsweredStarts \cup BackendStarts \cup TextStarts

ApiInit ==
    /\ \E s \in ApiStarts :
         /\ entry = s.entry
         /\ req = s.req
         /\ term = s.term
         /\ env = s.env
         /\ opts = IF s.entry = "execute"
                   THEN [input_format |-> s.req.input_format,
                         output_format |-> s.req.output_format]
                   ELSE NoOptions
         /\ pc = IF s.entry \in {"chat", "messages", "rca"} THEN "received" ELSE "call"
    /\ proc = "none" /\ exitCode = "none" /\ pos = 0
    /\ errorEmitted = FALSE /\ closeEmitted = FALSE
    /\ killCalls = <<>> /\ sent = <<>> /\ killed = FALSE
    /\ spawns = 0 /\ errPos = 0
    /\ stdout = <<>> /\ stderr = <<>> /\ detail = <<>>
    /\ timeoutHandle = "unset" /\ escalation = "unset"
    /\ processExited = FALSE /\ outcome = "pending"
    /\ resWrites = <<>> /\ resEndCalls = 0 /\ resClosed = FALSE /\ hasError = FALSE
    /\ args = <<>> /\ input = <<>>
    /\ result = NoResult /\ reply = NoReply
    /\ parked = Absent /\ active = 1

ApiNext ==
    \/ ValidateChatCompletionRequest \/ ChatCompletions \/ Messages \/ Rca
    \/ Execute \/ ExecuteStreaming \/ Completed
    \/ Next

ApiSpec == ApiInit /\ [][ApiNext]_vars


\* ------------------------------------------------------------ observations
Has(seq, x) == \E i \in 1..Len(seq) : seq[i] = x

FramesOfKind(k) == SelectSeq(resWrites, LAMBDA f : f.kind = k)
DoneCount == Len(FramesOfKind("done"))
ErrorCount == Len(FramesOfKind("error"))

\* The written frames end with one error frame followed by the sentinel.
EndsWithErrorDone ==
    /\ Len(resWrites) >= 2
    /\ resWrites[Len(resWrites) - 1].kind = "error"
    /\ resWrites[Len(resWrites)].kind = "done"

\* The type tokens of the events the backend printed.
EventTypes(out) ==
    LET lines == SplitNL(out, <<>>) IN
    {NonBlank(lines[i])[2] : i \in {j \in 1..Len(lines) : IsJsonObject(lines[j])}}

NoAssistantEvents(out) == EventTypes(out) \cap {"assistant", "assistant_nomsg"} = {}

Streaming == env.mode = "streaming" /\ pc = "live"

\* The stdout text delivered to the 'data' handler so far.
Delivered == SubSeq(env.out, 1, pos)

\* The lines of a backend output that are assistant events, in order.
AssistantLines(out) ==
    SelectSeq(SplitNL(out, <<>>),
              LAMBDA l : IsJsonObject(l) /\ NonBlank(l)[2] = "assistant")

\* The lines of a backend output that are not blank and not JSON.
MalformedLines(out) ==
    SelectSeq(SplitNL(out, <<>>), LAMBDA l : Trim(l) # <<>> /\ ~IsJsonObject(l))

RECURSIVE TextUpTo(_, _)
\* The texts of the text-typed blocks among the first n tokens of an
\* event, in order.
TextUpTo(t, n) ==
    IF n = 0 THEN ""
    ELSE TextUpTo(t, n - 1) \o (IF t[n] \in TextBlocks THEN TextOf(t[n]) ELSE "")

\* The StreamChunk an assistant event is to be forwarded as.
ExpectedChunk(line) ==
    LET t == NonBlank(line) IN
    ChunkFrame(TextUpTo(t, Len(t)),
               IF t[Len(t) - 1] = "stop:end_turn" THEN "end_turn" ELSE "null")

ExpectedChunks(out) ==
    LET ls == AssistantLines(out) IN [i \in 1..Len(ls) |-> ExpectedChunk(ls[i])]

RECURSIVE IsSubseq(_, _)
\* a is b with some elements left out.
IsSubseq(a, b) ==
    IF a = <<>> THEN TRUE
    ELSE IF b = <<>> THEN FALSE
    ELSE IF Head(a) = Head(b) THEN IsSubseq(Tail(a), Tail(b))
    ELSE IsSubseq(a, Tail(b))
Buffered == env.mode = "buffered" /\ pc = "live"

\* ------------------------------------------------------------------ claims

\* C1: in a streaming invocation exactly one sentinel frame is written over
\* the life of the invocation: never more than one, and one once the
\* subprocess has closed, on every path.
C1_ExactlyOneSentinel ==
    Streaming => /\ DoneCount <= 1
                 /\ (closeEmitted => DoneCount = 1)

\* C2: the StreamChunks forwarded for a stdout stream do not depend on how
\* the stream is cut into chunks: once the subprocess has closed they are
\* the chunks the handler produces for the delivered stream as one chunk.
C2_ChunkingIndependent ==
    (Streaming /\ closeEmitted)
        => FramesOfKind("chunk") = StreamDataHandler(SubSeq(env.out, 1, pos))

\* C3: when the main timer expires while the subprocess runs, SIGTERM is
\* sent and the escalation timer armed; at the escalation timer's expiry
\* SIGKILL is sent exactly when the subprocess is still running; SIGKILL is
\* sent by nothing else and never before SIGTERM.
C3_TimeoutEscalation ==
    [][ /\ (timeoutHandle = "armed" /\ timeoutHandle' = "fired" /\ proc = "running")
            => (sent' = Append(sent, "SIGTERM") /\ escalation' = "armed")
        /\ (escalation = "armed" /\ escalation' = "fired")
            => IF proc = "running"
               THEN sent' = Append(sent, "SIGKILL")
               ELSE sent' = sent
        /\ (Has(sent', "SIGKILL") /\ ~Has(sent, "SIGKILL"))
            => (escalation = "armed" /\ escalation' = "fired" /\ Has(sent, "SIGTERM"))
      ]_vars

C3_Witness ==
    Buffered /\ sent = <<"SIGTERM", "SIGKILL">> /\ escalation = "fired"

\* C4: a buffered invocation whose subprocess never exits on its own
\* resolves with the timeout error, and the subprocess is eventually no
\* longer running.
C4_HangResolvesTimeout ==
    (Buffered /\ env.hangs) ~> (outcome = "timeout" /\ proc # "running")

\* C5: a streaming invocation whose subprocess never exits on its own and
\* whose client stays connected is ended by the timeout: a termination
\* signal is sent and the stream ends with an error frame and the sentinel.
C5_StreamingTimeout ==
    (Streaming /\ env.hangs) ~> (resClosed \/ (sent # <<>> /\ EndsWithErrorDone))

\* C6: when the response sink closes while the subprocess is running,
\* SIGTERM is sent to it in the step that handles the close.
C6_DisconnectSendsTerm ==
    [][ (Streaming /\ ~resClosed /\ resClosed' /\ proc = "running")
            => sent' = Append(sent, "SIGTERM") ]_vars

C6_Witness ==
    Streaming /\ resClosed /\ proc = "running" /\ sent = <<"SIGTERM">> /\ pos > 0

\* C7: after a client disconnect has sent SIGTERM, a subprocess that is
\* still running is sent SIGKILL: it does not stay alive.
C7_DisconnectEscalates ==
    (Streaming /\ resClosed /\ Has(sent, "SIGTERM"))
        ~> (proc # "running" \/ Has(sent, "SIGKILL"))

\* C8: at most one error frame is ever written to the stream, and after a
\* close with non-zero status there is exactly one and it immediately
\* precedes the sentinel.
C8_OneErrorFrame ==
    Streaming => /\ ErrorCount <= 1
                 /\ (closeEmitted /\ CloseCode # "0")
                        => (ErrorCount = 1 /\ EndsWithErrorDone)

\* C9: once the sentinel has been written and the sink ended, nothing more
\* is written to the sink.
C9_SentinelIsLast ==
    [][ (DoneCount > 0 /\ resEndCalls > 0) => resWrites' = resWrites ]_vars

\* C10: a stream whose backend printed no assistant event and exited
\* with status 0 writes exactly one frame, the sentinel: it is written
\* once the exit has been handled, and after the close nothing else is in
\* the sink.
C10_EmptyStreamOnlySentinel ==
    /\ []((Streaming /\ closeEmitted /\ CloseCode = "0" /\ NoAssistantEvents(env.out))
            => resWrites = <<DoneFrame>>)
    /\ (Streaming /\ proc = "exited" /\ exitCode = "0" /\ NoAssistantEvents(env.out))
          ~> (resWrites = <<DoneFrame>>)

\* C11: a malformed output line is skipped without aborting the stream:
\* once the subprocess of a stream with a malformed line has closed, the
\* StreamChunks written are those of all the assistant lines of the output
\* (none for the malformed line) and the sentinel has been written.
C11_MalformedLineSkipped ==
    (Streaming /\ closeEmitted /\ pos = Len(env.out) /\ MalformedLines(env.out) # <<>>)
        => /\ FramesOfKind("chunk") = ExpectedChunks(env.out)
           /\ DoneCount >= 1

\* C12: the StreamChunks written are in one-to-one, order-preserving
\* correspondence with the assistant events of the output; events of any
\* other kind produce no frame.
C12_OnlyAssistantForwarded ==
    (Streaming /\ closeEmitted)
        => LET chunks == FramesOfKind("chunk")
               events == AssistantLines(Delivered)
           IN /\ Len(chunks) = Len(events)
              /\ \A i \in 1..Len(chunks) : chunks[i] = ExpectedChunk(events[i])

\* C13: every StreamChunk written is the chunk of one forwarded assistant
\* event, in the order of the events: its content is the concatenation of
\* the event's text blocks in order, its finish_reason the event's stop
\* reason, or null when the event has none.
C13_ChunkOfEvent ==
    Streaming => IsSubseq(FramesOfKind("chunk"), ExpectedChunks(Delivered))

C13_Witness ==
    /\ Streaming
    /\ FramesOfKind("chunk") = <<ChunkFrame("xy", "end_turn"), ChunkFrame("x", "null")>>


\* The text a backend-execution error is to carry: the captured standard
\* error, or the captured standard output when standard error is empty.
CapturedText == IF stderr # <<>> THEN stderr ELSE stdout

\* The invocation has not timed out.
NotTimedOut == timeoutHandle # "fired"

\* C14: an invocation spawns exactly one subprocess, and the buffered call
\* produces exactly one outcome: it settles, after the close it has one
\* of the classified outcomes, and an outcome once reported is never
\* replaced and never followed by another spawn.
C14_OneSpawnOneOutcome ==
    /\ [][ /\ spawns' = (IF pc' = "init" THEN 0 ELSE 1)
           /\ (outcome # "pending") => (outcome' = outcome /\ detail' = detail)
           /\ (env.mode = "buffered" /\ closeEmitted')
                => outcome' \in {"response", "spawn_error", "input_error", "timeout",
                                 "exec_error", "parse_error"}
         ]_vars
    /\ (Buffered ~> outcome # "pending")

\* C15: once the main timer has expired, the outcome of the buffered
\* invocation is the timeout error, whatever happened afterwards.
C15_TimeoutOutcomeSticks ==
    (Buffered /\ timeoutHandle = "fired") => outcome = "timeout"

C15_Witness ==
    /\ Buffered /\ timeoutHandle = "fired" /\ closeEmitted
    /\ CloseCode = "0" /\ IsJsonObject(stdout) /\ outcome = "timeout"

\* C16 (as stated): in a buffered invocation that has not timed out, a
\* close with non-zero status yields the backend-execution error carrying
\* the exit code and the captured stderr text, or stdout text when stderr
\* is empty.
C16_NonZeroCloseIsExecError ==
    (Buffered /\ closeEmitted /\ CloseCode # "0" /\ NotTimedOut)
        => /\ outcome = "exec_error"
           /\ Head(detail) = CloseCode
           /\ (CapturedText # <<>> => Tail(detail) = CapturedText)

\* C16 (amended): the same, for an invocation whose spawn succeeded.
C16_NonZeroCloseIsExecErrorAfterStart ==
    (Buffered /\ closeEmitted /\ CloseCode # "0" /\ NotTimedOut /\ ~env.spawnFails)
        => /\ outcome = "exec_error"
           /\ Head(detail) = CloseCode
           /\ (CapturedText # <<>> => Tail(detail) = CapturedText)

C16_Witness ==
    /\ Buffered /\ closeEmitted /\ CloseCode = "1" /\ NotTimedOut
    /\ stderr # <<>> /\ stdout # <<>>
    /\ outcome = "exec_error" /\ detail = <<"1">> \o stderr

\* C17: in a buffered invocation that has not timed out, a
\* close with status 0 resolves with the parsed value exactly when the
\* backend's output is one JSON value, and fails with the response-parse
\* error otherwise.
C17_ZeroCloseParses ==
    (Buffered /\ closeEmitted /\ CloseCode = "0" /\ NotTimedOut)
        => IF IsJsonObject(BufferToString(env.out))
           THEN outcome = "response" /\ detail = NonBlank(stdout)
           ELSE outcome = "parse_error"

C17_Witness ==
    /\ Buffered /\ closeEmitted /\ CloseCode = "0" /\ NotTimedOut
    /\ Len(AssistantLines(stdout)) = 2 /\ outcome = "parse_error"

\* C18: when the subprocess cannot be spawned, the buffered invocation
\* fails with the spawn error, the timeout timer is cancelled, and no
\* signal is sent afterwards.
C18_SpawnError ==
    (Buffered /\ errorEmitted)
        => /\ outcome = "spawn_error"
           /\ timeoutHandle = "cleared"
           /\ escalation = "unset"
           /\ killCalls = <<>>

C18_Witness ==
    Buffered /\ errorEmitted /\ closeEmitted /\ timeoutHandle = "cleared" /\ sent = <<>>

\* C19: when the stdin write has failed, the buffered invocation fails
\* with the input-write error and the subprocess is not left running with
\* nothing able to end it: it was sent a signal (the timers of a process
\* that has ended never fire).
C19_StdinFailureReaps ==
    (env.mode = "buffered" /\ pc = "crashed")
        => /\ outcome = "input_error"
           /\ (proc = "running" => sent # <<>>)


\* What C20 names of an invocation: its output buffers, termination flag,
\* timers, outcome, and the signals its subprocess was sent.
Private(r) ==
    [stdout |-> r.stdout, stderr |-> r.stderr, resWrites |-> r.resWrites,
     processExited |-> r.processExited,
     timeoutHandle |-> r.timeoutHandle, escalation |-> r.escalation,
     outcome |-> r.outcome, detail |-> r.detail,
     killCalls |-> r.killCalls, sent |-> r.sent, killed |-> r.killed]

\* The state of invocation i of the pair.
StateOf(i) == IF i = active THEN Own ELSE parked

\* C20: with two invocations in flight, a step of one of them (stdout or
\* stderr data, close, spawn error, timer expiry, client disconnect)
\* leaves the other's buffers, termination flag, timers and outcome
\* unchanged and sends its subprocess no signal.
C20_InvocationsIndependent ==
    [][ \A i \in {1, 2} :
          (i # active \/ active' # active) => Private(StateOf(i))' = Private(StateOf(i))
      ]_vars

C20_Witness ==
    /\ pc = "live" /\ timeoutHandle = "fired" /\ sent = <<"SIGTERM", "SIGKILL">>
    /\ outcome = "timeout"
    /\ parked.pc = "live" /\ parked.proc = "running" /\ parked.timeoutHandle = "armed"
    /\ parked.stdout # <<>> /\ parked.sent = <<>> /\ parked.outcome = "pending"


\* ------------------------------------------------- claims on the translator
\* The entry point has done its translation: spawn() got args and input.
Translated == pc \in {"init", "live"}

\* The turns of the request, <<>> when the messages array is missing.
TurnsOfReq == IF req.messages = <<>> THEN <<>> ELSE req.messages[1]

\* The formats the executor works with.
InputFormatUsed ==
    IF env.mode = "streaming" THEN "text" ELSE OrElse(opts.input_format, "text")
OutputFormatUsed ==
    IF env.mode = "streaming" THEN "stream-json" ELSE OrElse(opts.output_format, "json")

\* C21: an execution entry point called with an empty messages sequence
\* fails with an invalid-request error and spawns no subprocess.
C21_EmptyTurnsRejected ==
    (entry \in {"execute", "executeStreaming"} /\ req.messages = <<(<<>>)>>)
        => /\ spawns = 0
           /\ (result # NoResult => result.kind = "invalid_request_error")

\* What C22 calls a request that fails validation at an endpoint.
FailsValidation ==
    \/ /\ entry \in {"chat", "messages"}
       /\ (req.messages = <<>> \/ req.messages[1] = <<>>)
    \/ /\ entry = "chat"
       /\ \/ \E i \in 1..Len(TurnsOfReq) :
               LET t == TurnsOfReq[i]
               IN \/ t.role = "undefined"
                  \/ t.content = <<>> \/ t.content[1] = <<>>
                  \/ t.role \notin {"system", "user", "assistant"}
          \/ (req.input_format # <<>> /\ req.input_format[1] \notin {"text", "stream-json"})
          \/ (req.output_format # <<>>
                /\ req.output_format[1] \notin {"text", "json", "stream-json"})

\* C22: a request that fails validation at an endpoint never reaches the
\* executor, no subprocess is spawned for it, and the reply it gets is
\* status 400 with an invalid_request_error envelope.
C22_InvalidRequestRejected ==
    FailsValidation
        => /\ pc \in {"received", "validated", "done"}
           /\ spawns = 0
           /\ (pc = "done" => (reply.kind = "error" /\ reply.status = 400
                                 /\ reply.type = "invalid_request_error"))
           /\ (pc # "done" => reply = NoReply)

C22_Witness ==
    /\ entry = "chat" /\ pc = "done" /\ spawns = 0
    /\ Len(TurnsOfReq) = 2 /\ TurnsOfReq[2].role = "tool"
    /\ reply = ErrorReply(400, "invalid_request_error", "invalid_role")

\* C23: the argument vector always has the non-interactive flag, the
\* permission-bypass flag and the output-format flag with its value, has
\* the verbose flag exactly when the output format is stream-json, and is
\* the same whatever the turns of the request are.
C23_ArgumentVector ==
    Translated
        => /\ Has(args, "--print")
           /\ Has(args, "--dangerously-skip-permissions")
           /\ \E i \in 1..(Len(args) - 1) :
                 args[i] = "--output-format" /\ args[i + 1] = OutputFormatUsed
           /\ (Has(args, "--verbose") <=> OutputFormatUsed = "stream-json")
           /\ ArgsOf(env.mode, [req EXCEPT !.messages = PlainBody.messages], opts) = args

C23_Witness ==
    /\ Translated /\ env.mode = "buffered"
    /\ OutputFormatUsed = "text" /\ InputFormatUsed = "stream-json"
    /\ Has(args, "--input-format") /\ ~Has(args, "--verbose")

\* Where the settings flag stands in the argument vector.
SettingsAt == {i \in 1..Len(args) : args[i] = "--settings"}

\* C24: the settings flag is in the argument vector exactly when max_tokens
\* or temperature is set in the request; it is then one flag, followed by
\* the blob of every one of the two values that is set, never an empty
\* object.
C24_SettingsFlag ==
    Translated
        => /\ (SettingsAt # {}) <=> (req.max_tokens # <<>> \/ req.temperature # <<>>)
           /\ Cardinality(SettingsAt) <= 1
           /\ \A i \in SettingsAt :
                 /\ i < Len(args)
                 /\ args[i + 1] = SettingsBlob([maxTokens |-> req.max_tokens,
                                                temperature |-> req.temperature])
                 /\ args[i + 1] # "{}"

\* The turns C25 and C26 speak of: a system, user or assistant turn with a
\* content.
Rendered(turns) ==
    \A i \in 1..Len(turns) :
        turns[i].role \in {"system", "user", "assistant"} /\ turns[i].content # <<>>

\* The rendering of one turn in text mode, as the specification words it.
TurnText(t) ==
    CASE t.role = "system" -> <<"System:", SP>> \o t.content[1]
      [] t.role = "assistant" -> <<"Assistant:", SP>> \o t.content[1]
      [] t.role = "user" -> t.content[1]

\* The renderings of turns[i..], each but the last followed by a blank line.
RECURSIVE BlankLineJoined(_, _)
BlankLineJoined(turns, i) ==
    IF i > Len(turns) THEN <<>>
    ELSE IF i = Len(turns) THEN TurnText(turns[i])
    ELSE TurnText(turns[i]) \o <<NL, NL>> \o BlankLineJoined(turns, i + 1)

\* C25: in text input mode the stdin payload is the turns in request
\* order joined by a blank line; a system turn is "System: " and its
\* content, an assistant turn "Assistant: " and its content, a user turn
\* its content verbatim.
C25_TextPayload ==
    (Translated /\ InputFormatUsed = "text" /\ req.messages # <<>> /\ Rendered(TurnsOfReq))
        => input = BlankLineJoined(TurnsOfReq, 1)
C25_Witness ==
    /\ Translated /\ InputFormatUsed = "text"
    /\ Len(TurnsOfReq) = 2
    /\ TurnsOfReq[1].role = "system"
    /\ TurnsOfReq[2] = [role |-> "user", content |-> <<(<<"b", NL, "c">>)>>]
    /\ input = <<"System:", SP, "a", NL, NL, "b", NL, "c">>

\* The lines of the stdin payload.
PayloadLines == SplitNL(input, <<>>)

\* C26: in stream-json input mode the stdin payload has one JSON object
\* per turn, one per line, in request order; the object of a user turn has
\* type user, the object of every other role type control, and each object
\* carries the turn's role and content.
C26_LinePayload ==
    (Translated /\ InputFormatUsed = "stream-json" /\ req.messages # <<>>)
        => IF TurnsOfReq = <<>> THEN input = <<>>
           ELSE /\ Len(PayloadLines) = Len(TurnsOfReq)
                /\ \A i \in 1..Len(TurnsOfReq) :
                      /\ IsTurnObject(PayloadLines[i])
                      /\ ParsedTurn(PayloadLines[i]).type
                            = (IF TurnsOfReq[i].role = "user" THEN "type:user"
                               ELSE "type:control")
                      /\ ParsedTurn(PayloadLines[i]).role = TurnsOfReq[i].role
                      /\ ParsedTurn(PayloadLines[i]).content = TurnsOfReq[i].content
C26_Witness ==
    /\ Translated /\ InputFormatUsed = "stream-json"
    /\ Len(TurnsOfReq) = 2
    /\ TurnsOfReq[1].role = "assistant"
    /\ TurnsOfReq[2] = [role |-> "user", content |-> <<(<<"b", NL, "c">>)>>]
    /\ Len(PayloadLines) = 2
    /\ ParsedTurn(PayloadLines[1]).type = "type:control"
    /\ ParsedTurn(PayloadLines[2]).type = "type:user"

\* The role/content pair of a turn or of a parsed object; an object
\* without a role has the role "undefined".
PairOf(o) ==
    [role |-> IF "role" \in DOMAIN o THEN o.role ELSE "undefined", content |-> o.content]
PairsOf(objects) == [i \in 1..Len(objects) |-> PairOf(objects[i])]

\* What _parseStreamJson gives back for the stdin payload: one object.
ReadBack == <<ParseStreamJson(input)>>

\* C27: for every non-empty turn sequence, the stream-json payload read
\* back with _parseStreamJson gives the same ordered sequence of
\* role/content pairs.
C27_RoundTrip ==
    (/\ Translated /\ InputFormatUsed = "stream-json"
     /\ req.messages # <<>> /\ TurnsOfReq # <<>>)
        => PairsOf(ReadBack) = PairsOf(TurnsOfReq)

\* The content the specification names for a terminal object: the value of
\* the first field that is present, of result, content, text and
\* message.content; of a list content, its text-typed blocks concatenated.
FirstPresent(t) ==
    IF t.result # <<>> THEN t.result[1]
    ELSE IF t.content # <<>>
    THEN (IF t.content[1].t = "list"
          THEN Str(JoinStr(TextsOf(t.content[1].v), ""))
          ELSE t.content[1])
    ELSE IF t.text # <<>> THEN t.text[1]
    ELSE IF t.messageContent # <<>> THEN t.messageContent[1]
    ELSE Str("")

\* C28: the content of the aggregated response comes from the first field
\* present in the terminal object, in the order result, content (a string,
\* or the concatenation of the text-typed blocks of a list), text,
\* message.content; with none present it is the empty string, and the
\* translation of an object raises no error.
C28_ContentPriority ==
    (result # NoResult /\ outcome = "response" /\ term.kind = "object")
        => /\ result.kind = "chat.completion"
           /\ result.content = FirstPresent(term)

\* The backend's output was parsed and translated.
TranslatedResponse == result # NoResult /\ outcome = "response"

\* C29: missing optional fields never make the response translation fail;
\* absent input and output token counts are reported as 0, an absent stop
\* reason as stop, and total_tokens is prompt_tokens plus
\* completion_tokens.
C29_Defaults ==
    (TranslatedResponse /\ term.kind # "null")
        => /\ result.kind = "chat.completion"
           /\ result.prompt_tokens
                = (IF term.input_tokens = <<>> THEN 0 ELSE term.input_tokens[1])
           /\ result.completion_tokens
                = (IF term.output_tokens = <<>> THEN 0 ELSE term.output_tokens[1])
           /\ (term.stop_reason = <<>> => result.finish_reason = "stop")
           /\ result.total_tokens = result.prompt_tokens + result.completion_tokens
C29_Witness ==
    /\ TranslatedResponse
    /\ term.input_tokens = <<>> /\ term.output_tokens = <<5>> /\ term.stop_reason = <<>>
    /\ result.kind = "chat.completion"
    /\ result.prompt_tokens = 0 /\ result.total_tokens = 5
    /\ result.finish_reason = "stop"

\* C30: the Anthropic-shaped projection returned by /v1/messages has the
\* content text and the input and output token counts of the OpenAI-shaped
\* response it is built from; its stop_reason is end_turn exactly when the
\* finish_reason is stop, and max_tokens otherwise.
C30_Projection ==
    (entry = "messages" /\ reply.kind = "json")
        => /\ result.kind = "chat.completion"
           /\ reply.body.text = result.content
           /\ reply.body.input_tokens = result.prompt_tokens
           /\ reply.body.output_tokens = result.completion_tokens
           /\ (reply.body.stop_reason = "end_turn" <=> result.finish_reason = "stop")
           /\ (result.finish_reason # "stop" => reply.body.stop_reason = "max_tokens")
C30_Witness ==
    /\ entry = "messages" /\ reply.kind = "json"
    /\ result.finish_reason = "end_turn"
    /\ reply.body.stop_reason = "max_tokens"
    /\ reply.body.input_tokens = 7 /\ reply.body.output_tokens = 5

\* C31: the response translation is idempotent: applied again to the same
\* backend output, model and request identifier, at whatever time, it
\* gives the result of the first application in every field.
C31_Idempotent ==
    TranslatedResponse
        => \A now \in DateNow :
              ConvertToOpenAiFormat(term, OrElse(req.model, DefaultModel), RequestId, now)
                = result

\* A chat completions request with output_format text whose backend
\* printed plain text and exited with status 0.
TextAnswered ==
    /\ entry = "chat" /\ OutputFormatOf(req) = "text"
    /\ env.out = PlainLine /\ stdout = env.out
    /\ closeEmitted /\ exitCode = "0"

\* C32: a chat completions request with output_format text succeeds when
\* the backend exits with 0 and prints plain text: the reply is the
\* response, not an error.
C32_TextOutputSucceeds ==
    (TextAnswered /\ reply # NoReply) => reply.kind = "json"

\* C33: the finish_reason of every buffered OpenAI-shaped response is stop
\* or length, whatever stop reason the backend reports.
C33_FinishReasonDocumented ==
    (TranslatedResponse /\ result.kind = "chat.completion")
        => result.finish_reason \in {"stop", "length"}

\* C34: in a buffered invocation, once the subprocess has closed no timer
\* remains armed: the timeout timer and the escalation timer have fired or
\* been cancelled.
C34_NoTimerLeft ==
    (env.mode = "buffered" /\ closeEmitted)
        => (timeoutHandle # "armed" /\ escalation # "armed")

\* C35: in a buffered invocation the termination flag is tested before
\* every timer-driven signal: once the close or the spawn error has been
\* handled (processExited is set), no timer callback calls kill, no signal
\* is delivered, and the outcome does not become the timeout error.
C35_FlagChecked ==
    [][ (Buffered /\ processExited)
            => /\ killCalls' = killCalls
               /\ sent' = sent
               /\ (outcome' = "timeout" => outcome = "timeout") ]_vars

C35_Witness ==
    /\ Buffered /\ processExited /\ closeEmitted
    /\ timeoutHandle = "fired" /\ escalation = "fired"
    /\ killCalls = <<"SIGTERM">>

\* C36: the client-disconnect hook of a streaming invocation signals only
\* a running subprocess: when the response sink closes after the
\* subprocess has exited, also after the normal end of the stream, no
\* signal is sent.
C36_DisconnectAfterExit ==
    [][ (Streaming /\ ~resClosed /\ resClosed' /\ proc # "running")
            => (sent' = sent /\ killed' = killed) ]_vars

C36_Witness ==
    /\ Streaming /\ resClosed /\ closeEmitted /\ exitCode = "0"
    /\ resEndCalls > 0
    /\ killCalls = <<"SIGTERM">> /\ sent = <<>>

\* C37: the argument vector the streaming executor builds inline equals,
\* element by element and in order, the vector _buildClaudeArgs returns for
\* the same request with input format text and output format stream-json.
C37_SameVector ==
    Translated
        => /\ StreamingArgs(Called(req)) = BuildClaudeArgs(Called(req), "text", "stream-json")
           /\ (env.mode = "streaming"
                  => args = BuildClaudeArgs(Called(req), "text", "stream-json"))
C37_Witness ==
    /\ Translated /\ env.mode = "streaming"
    /\ req.model = <<"opus">> /\ req.max_tokens = <<100>> /\ req.temperature = <<"0">>
    /\ Len(args) = 9 /\ args[8] = "--settings"

\* C38: for a chat completions request with output_format stream-json the
\* requested input_format has no effect: the payload is the text rendering
\* of the turns, no input-format flag is passed, and payload and vector are
\* those of the same request with input_format text and with stream-json.
C38_InputFormatIgnored ==
    (entry = "chat" /\ OutputFormatOf(req) = "stream-json" /\ Translated)
        => /\ input = BlankLineJoined(TurnsOfReq, 1)
           /\ ~Has(args, "--input-format")
           /\ \A i \in {<<"text">>, <<"stream-json">>} :
                 /\ ArgsOf(RoutedMode(entry, [req EXCEPT !.input_format = i]),
                           [req EXCEPT !.input_format = i], opts) = args
                 /\ InputOf(RoutedMode(entry, [req EXCEPT !.input_format = i]),
                            [req EXCEPT !.input_format = i], opts) = input
C38_Witness ==
    /\ entry = "chat" /\ OutputFormatOf(req) = "stream-json" /\ Translated
    /\ req.input_format = <<"stream-json">>
    /\ Len(TurnsOfReq) = 2 /\ TurnsOfReq[1].role = "assistant"
    /\ input = <<"Assistant:", SP, "a", NL, NL, "a">>

RECURSIVE SplitBlank(_, _)
\* The segments of a payload between blank lines; cur is the segment being
\* read.
SplitBlank(data, cur) ==
    IF data = <<>> THEN <<cur>>
    ELSE IF Len(data) >= 2 /\ data[1] = NL /\ data[2] = NL
    THEN <<cur>> \o SplitBlank(SubSeq(data, 3, Len(data)), <<>>)
    ELSE SplitBlank(Tail(data), Append(cur, Head(data)))

\* seg ends with text
EndsWith(seg, text) ==
    /\ Len(seg) >= Len(text)
    /\ SubSeq(seg, Len(seg) - Len(text) + 1, Len(seg)) = text

\* C39: for every request an endpoint accepts and passes to the executor
\* in text input mode, each turn contributes one segment to the stdin
\* payload, in order: the payload has as many segments as the request has
\* turns, and segment i carries the content of turn i.
C39_NoTurnDropped ==
    (entry \in {"chat", "messages"} /\ Translated /\ InputFormatUsed = "text")
        => /\ Len(SplitBlank(input, <<>>)) = Len(TurnsOfReq)
           /\ \A i \in 1..Len(TurnsOfReq) :
                 TurnsOfReq[i].content # <<>>
                    => EndsWith(SplitBlank(input, <<>>)[i], TurnsOfReq[i].content[1])

\* C40: the result of a buffered invocation does not depend on how the
\* subprocess's output is cut into chunks: the buffer is the text of the
\* output delivered so far, in order; nothing is parsed before the close;
\* and after the close of an invocation that started and did not time
\* out, the outcome and what it carries are those of the whole output,
\* as it is when it arrives in one chunk, and the exit status.
C40_ChunkingIndependent ==
    Buffered
        => /\ (outcome \in {"response", "parse_error", "exec_error"} => closeEmitted)
           /\ (closeEmitted /\ NotTimedOut /\ ~env.spawnFails)
                 => /\ stdout = BufferToString(env.out)
                    /\ outcome = CloseOutcome(exitCode, BufferToString(env.out))
                    /\ detail = CloseDetail(exitCode, BufferToString(env.out), env.err)

====
